---- MODULE Spec2Model ----
(***************************************************************************)
(* A model of esptool.py (src/esptool.py): the SLIP frame codec, the       *)
(* command transport and session of ESPLoader, and the firmware image      *)
(* codecs.  The specifications that share the module:                      *)
(*   SpecSlip   the frame writer looped back into the frame reader         *)
(*   SpecReader the frame reader on arbitrary bytes                        *)
(*   Spec       one session of main(): connect, stub, operation, reset     *)
(*   SpecImage  elf2image's verify/save followed by LoadFirmwareImage      *)
(*   SpecErase  get_erase_size of every loader class                       *)
(*   SpecLoader one method call on a loader object, packet by packet       *)
(*   SpecUpload run_stub or mem_finish on a loader object, request by      *)
(*              request                                                    *)
(*   SpecWrite  write_flash of one file, uncompressed, request by request  *)
(*   SpecEncrypt the same after the checks write_flash makes before an     *)
(*              encrypted write                                            *)
(*   SpecRead   read_flash of a stub loader, frame by frame                *)
(*   SpecBaud   change_baud on a loader object                             *)
(*   SpecSpi    run_spiflash_command, register access by register access   *)
(*   SpecSha    save of a version 1 image with an ELF digest to patch in   *)
(*   SpecMerge  merge_adjacent_segments, pass by pass                      *)
(***************************************************************************)
EXTENDS Integers, Sequences, FiniteSets, TLC

VARIABLES
    \* ---- frame codec (ESPLoader.write, slip_reader) ----
    slip_pc,          \* "write" | "read" | "done"
    packet,           \* the byte sequence handed to ESPLoader.write
    rx_wire,          \* bytes on the line that have not reached the port yet
    rx_buf,           \* the port's input buffer (port.inWaiting() of them)
    read_bytes,       \* slip_reader: rest of the chunk the for-loop walks
    partial_packet,   \* slip_reader: None (open false) or the bytes so far
    in_escape,        \* slip_reader: previous byte was 0xDB
    packets,          \* packets yielded so far, in order
    reader_error      \* "none" or the FatalError the generator raised

slipVars == <<slip_pc, packet, rx_wire, rx_buf, read_bytes, partial_packet,
              in_escape, packets, reader_error>>

VARIABLES
    \* ---- one session of main() ----
    pc,                    \* position in main() and the functions it calls
    args,                  \* the parsed command line
    files,                 \* write_flash: all_files, as (size, encrypted) records
    esp,                   \* class of the loader object main() holds, or None
    port_open,             \* the serial port of the loader is open
    secure_download_mode,  \* ESPLoader.secure_download_mode
    sync_stub_detected,    \* ESPLoader.sync_stub_detected
    cmd,                   \* the command() call in progress
    reply,                 \* what the last command() call returned or raised
    last_req,              \* the last request written to the port
    sent,                  \* every request written to the port, in order
    parsed,                \* class and status length of the last check_command
    loop,                  \* loop counters of the function in progress
    sync_replies,          \* value fields read by the sync() in progress
    verified,              \* write_flash: files whose flash MD5 matched
    \* ---- the target ----
    target_chip,           \* the chip on the other end of the line
    target_stub,           \* the flasher stub is running on the target
    target_secure,         \* the ROM is in secure download mode
    faults                 \* replies lost or refused by the target so far

connVars == <<pc, args, files, esp, port_open, secure_download_mode,
              sync_stub_detected, cmd, reply, last_req, sent, parsed, loop,
              sync_replies, verified, target_chip, target_stub, target_secure,
              faults>>

VARIABLES
    \* ---- firmware images (elf2image, save, LoadFirmwareImage) ----
    img_pc,           \* position in elf2image / save / the loading constructor
    image,            \* the image object elf2image builds
    f,                \* the output file: bytes written and SHA-256 appended
    sv,               \* locals of save(): segment lists, checksum, counters
    loaded            \* the image object the loading constructor builds

imgVars == <<img_pc, image, f, sv, loaded>>

VARIABLES
    \* ---- erase sizing (get_erase_size) ----
    er_pc,            \* "idle" | "call" | "done"
    er_cls,           \* the class of the loader object
    er_offset,        \* argument offset
    er_size,          \* argument size
    er_result         \* the value returned

eraseVars == <<er_pc, er_cls, er_offset, er_size, er_result>>

VARIABLES
    \* ---- one method call on a loader object ----
    ld_pc,            \* "idle" | "ready" | "reading" | "data" | "digest" | "done"
    ld_self,          \* the loader object: class, port timeout and baud rate, flags
    ld_before,        \* the loader object as it was when the method was called
    ld_call,          \* the method called and its arguments
    ld_cmd,           \* the locals of command() while it runs
    ld_written,       \* what the call has written to the port, in order
    ld_flushed,       \* calls of flush_input made
    ld_reply,         \* the val, data that command() returned to its caller
    ld_data,          \* read_flash: len(data)
    ld_result         \* how the call ended

loaderVars == <<ld_pc, ld_self, ld_before, ld_call, ld_cmd, ld_written,
                ld_flushed, ld_reply, ld_data, ld_result>>

VARIABLES
    \* ---- one upload: run_stub or mem_finish ----
    up_pc,            \* "idle" | "ready" | "mem_begin" | "mem_block" | "mem_end" | "hello" | "done"
    up_self,          \* the loader object: class, sync_stub_detected, ESP_RAM_BLOCK
    up_call,          \* the method called and its argument
    up_loop,          \* run_stub: field and seq of the loops
    up_sent,          \* the requests written to the port, in order
    up_reader,        \* self._slip_reader: a "running" or a "finished" generator
    up_ignored,       \* what failed in the MEM_END exchange mem_finish let pass
    up_packet,        \* what the target sent for the read after mem_finish
    up_reply,         \* what the port gave to the last check_command
    up_result         \* how the call ended

uploadVars == <<up_pc, up_self, up_call, up_loop, up_sent, up_reader,
                up_ignored, up_packet, up_reply, up_result>>

vars == <<slipVars, connVars, imgVars, eraseVars, loaderVars, uploadVars>>

notSlip == <<connVars, imgVars, eraseVars, loaderVars, uploadVars>>
notConn == <<slipVars, imgVars, eraseVars, loaderVars, uploadVars>>
notImg == <<slipVars, connVars, eraseVars, loaderVars, uploadVars>>
notErase == <<slipVars, connVars, imgVars, loaderVars, uploadVars>>
notLoader == <<slipVars, connVars, imgVars, eraseVars, uploadVars>>
notUpload == <<slipVars, connVars, imgVars, eraseVars, loaderVars>>

None == "None"

(***************************************************************************)
(* Bounds                                                                  *)
(***************************************************************************)
MaxPacketLen == 3
MaxFaults == 2
MaxBlocks == 2
InfoReads == 2
StubBlocks == 1
MaxWireLen == 4
MaxFileBlocks == 2
MaxReadSectors == 2
MaxExtraSections == 1
MaxStartSector == 17
MaxNumSectors == 17

(***************************************************************************)
(* Frame codec                                                             *)
(***************************************************************************)
SLIP_END == 192         \* 0xC0
SLIP_ESC == 219         \* 0xDB
SLIP_ESC_END == 220     \* 0xDC
SLIP_ESC_ESC == 221     \* 0xDD

\* The bytes packets are drawn from: the four bytes the codec treats
\* specially and one ordinary byte.
PacketBytes == {SLIP_END, SLIP_ESC, SLIP_ESC_END, SLIP_ESC_ESC, 0}

SeqsUpTo(S, n) == UNION {[1..k -> S] : k \in 0..n}

\* bytes.replace(old, new) for a one-byte `old`
RECURSIVE Replace(_, _, _)
Replace(s, old, new) ==
    IF s = <<>> THEN <<>>
    ELSE (IF Head(s) = old THEN new ELSE <<Head(s)>>) \o Replace(Tail(s), old, new)

\* A writer that escapes 0xC0 before 0xDB: the 0xDB of the first escape is
\* escaped a second time.
SlipEncodeSwapped(p) ==
    <<SLIP_END>>
    \o Replace(Replace(p, SLIP_END, <<SLIP_ESC, SLIP_ESC_END>>),
               SLIP_ESC, <<SLIP_ESC, SLIP_ESC_ESC>>)
    \o <<SLIP_END>>

\* ESPLoader.write: the buffer handed to port.write
SlipEncode(p) ==
    <<SLIP_END>>
    \o Replace(Replace(p, SLIP_ESC, <<SLIP_ESC, SLIP_ESC_ESC>>),
               SLIP_END, <<SLIP_ESC, SLIP_ESC_END>>)
    \o <<SLIP_END>>

\* partial_packet = None, and partial_packet holding bytes
NoPacket == [open |-> FALSE, bytes |-> <<>>]

Partial(bytes) == [open |-> TRUE, bytes |-> bytes]

SlipInit ==
    /\ slip_pc = "write"
    /\ packet \in SeqsUpTo(PacketBytes, MaxPacketLen)
    /\ rx_wire = <<>>
    /\ rx_buf = <<>>
    /\ read_bytes = <<>>
    /\ partial_packet = NoPacket
    /\ in_escape = FALSE
    /\ packets = <<>>
    /\ reader_error = "none"

\* write(packet) on a port whose output is looped back to its input
SlipWrite ==
    /\ UNCHANGED notSlip
    /\ slip_pc = "write"
    /\ rx_wire' = SlipEncode(packet)
    /\ slip_pc' = "read"
    /\ UNCHANGED <<packet, rx_buf, read_bytes, partial_packet, in_escape,
                   packets, reader_error>>

\* the line delivers the next k bytes into the port's input buffer
SlipArrive ==
    /\ UNCHANGED notSlip
    /\ slip_pc = "read"
    /\ \E k \in 1..Len(rx_wire) :
          /\ rx_buf' = rx_buf \o SubSeq(rx_wire, 1, k)
          /\ rx_wire' = SubSeq(rx_wire, k + 1, Len(rx_wire))
    /\ UNCHANGED <<slip_pc, packet, read_bytes, partial_packet, in_escape,
                   packets, reader_error>>

\* slip_reader, lines 2841-2846: read what is waiting, or block for one
\* byte; no byte before the timeout raises "Timed out waiting for packet"
SlipReadChunk ==
    /\ UNCHANGED notSlip
    /\ slip_pc = "read"
    /\ reader_error = "none"
    /\ read_bytes = <<>>
    /\ IF rx_buf # <<>>
         THEN /\ read_bytes' = rx_buf
              /\ rx_buf' = <<>>
              /\ UNCHANGED <<rx_wire, reader_error, slip_pc>>
         ELSE IF rx_wire # <<>>
         THEN /\ read_bytes' = <<Head(rx_wire)>>
              /\ rx_wire' = Tail(rx_wire)
              /\ UNCHANGED <<rx_buf, reader_error, slip_pc>>
         ELSE /\ reader_error' = (IF partial_packet = NoPacket
                                    THEN "timeout_header" ELSE "timeout_content")
              /\ slip_pc' = "done"
              /\ UNCHANGED <<rx_wire, rx_buf, read_bytes>>
    /\ UNCHANGED <<packet, partial_packet, in_escape, packets>>

\* a reader that takes any byte after 0xDB as it is
UnescapeLenient(b) ==
    CASE b = SLIP_ESC_END -> <<SLIP_END>>
      [] b = SLIP_ESC_ESC -> <<SLIP_ESC>>
      [] OTHER -> <<b>>

\* slip_reader, lines 2860-2868: the byte that 0xDB followed by b stands
\* for, or nothing when b is neither 0xDC nor 0xDD
Unescape(b) ==
    CASE b = SLIP_ESC_END -> <<SLIP_END>>
      [] b = SLIP_ESC_ESC -> <<SLIP_ESC>>
      [] OTHER -> <<>>

\* slip_reader, lines 2848-2876: one turn of the for-loop over read_bytes
SlipByte ==
    /\ UNCHANGED notSlip
    /\ slip_pc = "read"
    /\ reader_error = "none"
    /\ read_bytes # <<>>
    /\ LET b == Head(read_bytes) IN
         /\ read_bytes' = Tail(read_bytes)
         /\ IF partial_packet = NoPacket
              THEN IF b = SLIP_END
                     THEN /\ partial_packet' = Partial(<<>>)
                          /\ UNCHANGED <<in_escape, packets, reader_error, slip_pc>>
                     ELSE /\ reader_error' = "invalid_head"
                          /\ slip_pc' = "done"
                          /\ UNCHANGED <<partial_packet, in_escape, packets>>
            ELSE IF in_escape
              THEN /\ in_escape' = FALSE
                   /\ IF Unescape(b) # <<>>
                        THEN /\ partial_packet' = Partial(partial_packet.bytes \o Unescape(b))
                             /\ UNCHANGED <<packets, reader_error, slip_pc>>
                      ELSE /\ reader_error' = "invalid_escape"
                           /\ slip_pc' = "done"
                           /\ UNCHANGED <<partial_packet, packets>>
            ELSE IF b = SLIP_ESC
              THEN /\ in_escape' = TRUE
                   /\ UNCHANGED <<partial_packet, packets, reader_error, slip_pc>>
            ELSE IF b = SLIP_END
              THEN /\ packets' = Append(packets, partial_packet.bytes)
                   /\ partial_packet' = NoPacket
                   /\ UNCHANGED <<in_escape, reader_error, slip_pc>>
            ELSE /\ partial_packet' = Partial(Append(partial_packet.bytes, b))
                 /\ UNCHANGED <<in_escape, packets, reader_error, slip_pc>>
    \* lines 2857 and 2867: before it raises, the reader empties the port's
    \* input buffer for the trace
    /\ rx_buf' = IF reader_error' # "none" THEN <<>> ELSE rx_buf
    /\ UNCHANGED <<packet, rx_wire>>

\* the reader alone, on whatever bytes the line carries (kept in packet)
ReaderInit ==
    /\ slip_pc = "read"
    /\ packet \in SeqsUpTo(PacketBytes, MaxWireLen)
    /\ rx_wire = packet
    /\ rx_buf = <<>>
    /\ read_bytes = <<>>
    /\ partial_packet = NoPacket
    /\ in_escape = FALSE
    /\ packets = <<>>
    /\ reader_error = "none"

(***************************************************************************)
(* Loader classes: the class statements of ESPLoader and its subclasses    *)
(***************************************************************************)
RomClasses == {"ESP8266ROM", "ESP32ROM", "ESP32S2ROM", "ESP32S3BETA2ROM", "ESP32C3ROM"}

StubClasses == {"ESP8266StubLoader", "ESP32StubLoader", "ESP32S2StubLoader",
                "ESP32S3BETA2StubLoader", "ESP32C3StubLoader"}

Classes == {"ESPLoader"} \cup RomClasses \cup StubClasses

\* the base named in each class statement
Parent(cls) ==
    CASE cls \in {"ESP8266ROM", "ESP32ROM"} -> "ESPLoader"
      [] cls = "ESP8266StubLoader" -> "ESP8266ROM"
      [] cls \in {"ESP32S2ROM", "ESP32S3BETA2ROM", "ESP32C3ROM", "ESP32StubLoader"} -> "ESP32ROM"
      [] cls = "ESP32S2StubLoader" -> "ESP32S2ROM"
      [] cls = "ESP32S3BETA2StubLoader" -> "ESP32S3BETA2ROM"
      [] cls = "ESP32C3StubLoader" -> "ESP32C3ROM"
      [] OTHER -> None

RECURSIVE IsInstance(_, _)
IsInstance(cls, base) ==
    \/ cls = base
    \/ cls # "ESPLoader" /\ IsInstance(Parent(cls), base)

\* the class bodies without the ESP32-family stub loaders' own assignment:
\* these classes then inherit the 4 of ESP32ROM
OwnStatusBytesLengthNoOverride(cls) ==
    CASE cls = "ESPLoader" -> 2
      [] cls = "ESP32ROM" -> 4
      [] OTHER -> 0

\* STATUS_BYTES_LENGTH where a class body sets it, 0 where it does not
OwnStatusBytesLength(cls) ==
    CASE cls = "ESPLoader" -> 2
      [] cls = "ESP32ROM" -> 4
      [] cls \in {"ESP32StubLoader", "ESP32S2StubLoader",
                  "ESP32S3BETA2StubLoader", "ESP32C3StubLoader"} -> 2
      [] OTHER -> 0

\* attribute lookup along the base classes
RECURSIVE STATUS_BYTES_LENGTH(_)
STATUS_BYTES_LENGTH(cls) ==
    IF OwnStatusBytesLength(cls) # 0 THEN OwnStatusBytesLength(cls)
    ELSE STATUS_BYTES_LENGTH(Parent(cls))

\* IS_STUB where a class body sets it
OwnIsStub(cls) ==
    CASE cls \in StubClasses -> "True"
      [] cls \in {"ESPLoader", "ESP8266ROM", "ESP32ROM"} -> "False"
      [] OTHER -> "unset"

RECURSIVE IS_STUB(_)
IS_STUB(cls) ==
    IF OwnIsStub(cls) # "unset" THEN OwnIsStub(cls) = "True"
    ELSE IS_STUB(Parent(cls))

\* X.STUB_CLASS = ... after each stub loader class; subclasses inherit it
RECURSIVE STUB_CLASS(_)
STUB_CLASS(cls) ==
    CASE cls = "ESP8266ROM" -> "ESP8266StubLoader"
      [] cls = "ESP32ROM" -> "ESP32StubLoader"
      [] cls = "ESP32S2ROM" -> "ESP32S2StubLoader"
      [] cls = "ESP32S3BETA2ROM" -> "ESP32S3BETA2StubLoader"
      [] cls = "ESP32C3ROM" -> "ESP32C3StubLoader"
      [] OTHER -> STUB_CLASS(Parent(cls))

\* CHIP_NAME
RECURSIVE CHIP_NAME(_)
CHIP_NAME(cls) ==
    CASE cls = "ESPLoader" -> "Espressif device"
      [] cls = "ESP8266ROM" -> "ESP8266"
      [] cls = "ESP32ROM" -> "ESP32"
      [] cls = "ESP32S2ROM" -> "ESP32-S2"
      [] cls = "ESP32S3BETA2ROM" -> "ESP32-S3(beta2)"
      [] cls = "ESP32C3ROM" -> "ESP32-C3"
      [] OTHER -> CHIP_NAME(Parent(cls))

\* the table with the ESP32-S2 entry carrying the word of the ESP32 entry
RECURSIVE MagicWithS2AsEsp32(_)
MagicWithS2AsEsp32(cls) ==
    CASE cls = "ESP8266ROM" -> <<65520, 49409>>
      [] cls \in {"ESP32ROM", "ESP32S2ROM"} -> <<240, 7555>>
      [] cls = "ESP32S3BETA2ROM" -> <<60160, 16694>>
      [] cls = "ESP32C3ROM" -> <<26913, 20591>>
      [] OTHER -> MagicWithS2AsEsp32(Parent(cls))

\* CHIP_DETECT_MAGIC_VALUE, a 32-bit word as <<high half, low half>>
RECURSIVE CHIP_DETECT_MAGIC_VALUE(_)
CHIP_DETECT_MAGIC_VALUE(cls) ==
    CASE cls = "ESP8266ROM" -> <<65520, 49409>>          \* 0xfff0c101
      [] cls = "ESP32ROM" -> <<240, 7555>>               \* 0x00f01d83
      [] cls = "ESP32S2ROM" -> <<0, 1990>>               \* 0x000007c6
      [] cls = "ESP32S3BETA2ROM" -> <<60160, 16694>>     \* 0xeb004136
      [] cls = "ESP32C3ROM" -> <<26913, 20591>>          \* 0x6921506f
      [] OTHER -> CHIP_DETECT_MAGIC_VALUE(Parent(cls))

\* the list detect_chip and connect walk
DetectOrder == <<"ESP8266ROM", "ESP32ROM", "ESP32S2ROM", "ESP32S3BETA2ROM", "ESP32C3ROM">>

\* a detection list that lacks its last entry, ESP32C3ROM
DetectClassShortList(magic) ==
    LET hits == {i \in 1..(Len(DetectOrder) - 1) :
                    CHIP_DETECT_MAGIC_VALUE(DetectOrder[i]) = magic}
    IN IF hits = {} THEN None
       ELSE DetectOrder[CHOOSE i \in hits : \A j \in hits : i <= j]
\* the first class of the list whose magic equals the value read, or None
DetectClass(magic) ==
    LET hits == {i \in 1..Len(DetectOrder) : CHIP_DETECT_MAGIC_VALUE(DetectOrder[i]) = magic}
    IN IF hits = {} THEN None
       ELSE DetectOrder[CHOOSE i \in hits : \A j \in hits : i <= j]

_chip_to_rom_loader(chip) ==
    CASE chip = "esp8266" -> "ESP8266ROM"
      [] chip = "esp32" -> "ESP32ROM"
      [] chip = "esp32s2" -> "ESP32S2ROM"
      [] chip = "esp32s3beta2" -> "ESP32S3BETA2ROM"
      [] chip = "esp32c3" -> "ESP32C3ROM"

\* stub_and_esp32_function_only
StubOrEsp32(cls) == IS_STUB(cls) \/ IsInstance(cls, "ESP32ROM")

Zero == <<0, 0>>

(***************************************************************************)
(* The target: what the chip on the line answers                           *)
(***************************************************************************)
TargetChips == RomClasses \cup {"unknown"}

TargetSet == TargetChips \cup {"absent"}

\* the word at 0x40001000 of the target's ROM
TargetMagic ==
    IF target_chip \in RomClasses THEN CHIP_DETECT_MAGIC_VALUE(target_chip)
    ELSE <<4660, 22136>>

\* length of the status trailer the target appends
TargetStatusLen ==
    IF target_stub \/ target_chip = "ESP8266ROM" THEN 2 ELSE 4

Trailer(first, second) ==
    IF TargetStatusLen = 2 THEN <<first, second>> ELSE <<first, second, 0, 0>>

\* the value field of a SYNC reply: 0 from the stub, nonzero from a ROM
SyncVal(stub) == IF stub THEN Zero ELSE <<8210, 1799>>

ROM_INVALID_RECV_MSG == 5

OkReply(val, data) == [kind |-> "ok", val |-> val, data |-> data]
Raised(kind) == [kind |-> kind, val |-> Zero, data |-> <<>>]
NoReply == Raised("none")

\* requests the ROM refuses in secure download mode
SecureRefused == {"READ_REG", "WRITE_REG", "MEM_BEGIN", "MEM_DATA", "MEM_END",
                  "SPI_FLASH_MD5"}

\* MD5 of flash contents: 1 stands for the digest of the image just written,
\* 2 for the digest of anything else; as raw bytes (stub) or hex text (ROM)
Md5Digest(content) == [i \in 1..16 |-> (content * 16 + i) % 256]

HexDigit(n, uppercase) ==
    IF n < 10 THEN 48 + n ELSE (IF uppercase THEN 55 ELSE 87) + n

RECURSIVE hexify(_, _)
hexify(s, uppercase) ==
    IF s = <<>> THEN <<>>
    ELSE <<HexDigit(Head(s) \div 16, uppercase), HexDigit(Head(s) % 16, uppercase)>>
         \o hexify(Tail(s), uppercase)

\* bytes.lower() / str.lower() on ASCII codes
Lower(s) == [i \in 1..Len(s) |-> IF s[i] >= 65 /\ s[i] <= 90 THEN s[i] + 32 ELSE s[i]]

\* hashlib.md5(image).hexdigest()
HexDigest(content) == hexify(Md5Digest(content), FALSE)

\* the answers the target can give to the request in flight
GoodReplies(c) ==
    IF ~target_stub /\ target_secure /\ c.op \in SecureRefused
      THEN {OkReply(Zero, Trailer(1, ROM_INVALID_RECV_MSG))}
    ELSE CASE c.op \in {"SYNC", "NONE"} ->
                {OkReply(SyncVal(target_stub), Trailer(0, 0))}
           [] c.op = "READ_REG" ->
                {OkReply(IF c.arg = "CHIP_DETECT_MAGIC_REG_ADDR" THEN TargetMagic ELSE Zero,
                         Trailer(0, 0))}
           [] c.op = "SPI_FLASH_MD5" ->
                {OkReply(Zero, (IF target_stub THEN Md5Digest(content)
                                ELSE hexify(Md5Digest(content), FALSE)) \o Trailer(0, 0))
                   : content \in {1, 2}}
           [] OTHER -> {OkReply(Zero, Trailer(0, 0))}

\* a lost reply (the read times out), a reply with a failure status, or a
\* SYNC reply whose value field is not the one the running code sends
BadReplies(c) ==
    {Raised("FatalError"), OkReply(Zero, Trailer(1, 6))}
    \cup (IF c.op \in {"SYNC", "NONE"}
            THEN {OkReply(SyncVal(~target_stub), Trailer(0, 0))} ELSE {})

(***************************************************************************)
(* Command transport                                                       *)
(***************************************************************************)
Idle == [state |-> "idle", op |-> "NONE", wait |-> TRUE, arg |-> "", check |-> FALSE]

\* a call of command(op, ..., wait_response); check: through check_command
Call(op, wait, arg, check) ==
    [state |-> "start", op |-> op, wait |-> wait, arg |-> arg, check |-> check]

\* last_req: the request last written; ended: the command() call that wrote
\* it has returned or raised; answered: its response was read
NoRequest == [op |-> "NONE", wait |-> TRUE, ended |-> TRUE, answered |-> TRUE]

\* command(), lines 439-445: the refusal of a ROM in secure download mode
\* is a response that does not carry the op of the request, with a failure
\* status and ROM_INVALID_RECV_MSG; it raises UnsupportedCommandError.  (The
\* response loop itself, packet by packet, is ReadPacket below.)
Command(r) ==
    IF r.kind = "ok" /\ Len(r.data) >= 2 /\ r.data[1] # 0 /\ r.data[2] = ROM_INVALID_RECV_MSG
      THEN Raised("UnsupportedCommandError")
    ELSE r

envVars == <<args, files, target_chip, target_secure>>

\* command(), lines 415-422: the request is packed and written; with
\* wait_response false the call returns at once
CmdWrite ==
    /\ UNCHANGED notConn
    /\ cmd.state = "start"
    /\ cmd.op # "NONE"
    /\ sent' = Append(sent, [op |-> cmd.op, wait |-> cmd.wait, arg |-> cmd.arg])
    /\ last_req' = [op |-> cmd.op, wait |-> cmd.wait, ended |-> ~cmd.wait,
                    answered |-> FALSE]
    /\ IF cmd.wait
         THEN /\ cmd' = [cmd EXCEPT !.state = "await"]
              /\ UNCHANGED reply
         ELSE /\ cmd' = [cmd EXCEPT !.state = "returned"]
              /\ reply' = NoReply
    \* a ROM that is told to leave RAM download mode jumps to the entry point
    /\ target_stub' = IF cmd.op = "MEM_END" /\ ~(target_secure /\ ~target_stub)
                        /\ target_chip # "absent"
                        THEN TRUE ELSE target_stub
    /\ UNCHANGED <<envVars, pc, esp, port_open, secure_download_mode,
                   sync_stub_detected, parsed, loop, sync_replies, verified,
                   faults>>

\* check_command(), lines 463-475, on what command() returned
CheckCommand(cls, r) ==
    IF r.kind # "ok" THEN [err |-> r.kind, result |-> Zero]
    ELSE LET n == STATUS_BYTES_LENGTH(cls)
             len == Len(r.data)
         IN IF len < n THEN [err |-> "FatalError", result |-> Zero]
            ELSE IF SubSeq(r.data, len - n + 1, len)[1] # 0
                   THEN [err |-> "FatalError", result |-> Zero]
            ELSE IF len > n
                   THEN [err |-> "none", result |-> SubSeq(r.data, 1, len - n)]
            ELSE [err |-> "none", result |-> r.val]

\* command(), lines 424-449: responses are read until one matches the request;
\* the read raises FatalError when none comes before the timeout.
\* check_command then inspects the status bytes of what came back.
CmdRead ==
    /\ UNCHANGED notConn
    /\ \/ cmd.state = "await"
       \/ cmd.state = "start" /\ cmd.op = "NONE"
    /\ \E r \in (IF target_chip = "absent" THEN {Raised("FatalError")}
                 ELSE GoodReplies(cmd)
                      \cup (IF faults < MaxFaults THEN BadReplies(cmd) ELSE {})) :
          /\ reply' = Command(r)
          /\ faults' = IF target_chip # "absent" /\ r \in BadReplies(cmd)
                         THEN faults + 1 ELSE faults
          /\ last_req' = IF cmd.op = "NONE" THEN last_req
                          ELSE [last_req EXCEPT !.ended = TRUE,
                                                !.answered = (r.kind = "ok")]
          /\ parsed' = IF cmd.check /\ Command(r).kind = "ok"
                         THEN [cls |-> esp, len |-> STATUS_BYTES_LENGTH(esp)]
                         ELSE parsed
    /\ cmd' = [cmd EXCEPT !.state = "returned"]
    /\ UNCHANGED <<envVars, pc, esp, port_open, secure_download_mode,
                   sync_stub_detected, loop, sync_replies, verified, sent,
                   target_stub>>

\* FatalError and its subclass NotImplementedInROMError, lines 2960-2985
IsFatalError(err) == err \in {"FatalError", "NotImplementedInROMError"}

Returned == cmd.state = "returned"

\* the outcome of the check_command() call that has returned
Checked == CheckCommand(esp, reply)

(***************************************************************************)
(* main(): opening the port and connecting                                 *)
(***************************************************************************)
DEFAULT_CONNECT_ATTEMPTS == 7

Loop0 == [attempt |-> 0, delay |-> FALSE, tries |-> 0, before |-> FALSE,
          k |-> 0, file |-> 0, seq |-> 0, field |-> "", error |-> "none",
          resets |-> 0, lines |-> <<>>]

NotParsed == [cls |-> None, len |-> 0]

\* The command line.  --chip and --before are drawn at the start; the
\* options main() reads later (no_stub, baud_raised: args.baud above the
\* initial rate, after) and the files are drawn by the action that first
\* reads them and hold these defaults until then.
ArgsSet ==
    [chip : {"auto", "esp8266", "esp32", "esp32s2", "esp32s3beta2", "esp32c3"},
     before : {"default_reset", "no_reset"},
     no_stub : {FALSE},
     baud_raised : {FALSE},
     after : {"hard_reset"}]

AfterModes == {"hard_reset", "soft_reset", "no_reset"}

\* write_flash's all_files: size in flash blocks and whether the file is to
\* be written encrypted
FileSets ==
    {<<[size |-> 1, encrypted |-> FALSE]>>,
     <<[size |-> 1, encrypted |-> TRUE]>>,
     <<[size |-> 0, encrypted |-> FALSE], [size |-> MaxBlocks, encrypted |-> FALSE]>>}

ConnInit ==
    /\ pc = "start"
    /\ args \in ArgsSet
    /\ files = <<>>
    /\ esp = None
    /\ port_open = FALSE
    /\ secure_download_mode = FALSE
    /\ sync_stub_detected = FALSE
    /\ cmd = Idle
    /\ reply = NoReply
    /\ last_req = NoRequest
    /\ sent = <<>>
    /\ parsed = NotParsed
    /\ loop = Loop0
    /\ sync_replies = <<>>
    /\ verified = <<>>
    /\ target_chip \in TargetSet
    /\ target_stub \in BOOLEAN
    /\ target_secure \in BOOLEAN
    /\ target_stub => target_chip \in RomClasses /\ args.before = "no_reset"
    /\ target_secure => target_chip \in TargetChips \ {"ESP8266ROM"} /\ ~target_stub
    /\ faults = 0

\* an exception leaves the function in progress
Raise(err) ==
    /\ pc' = "raised"
    /\ cmd' = Idle
    /\ loop' = [loop EXCEPT !.error = err]

\* get_default_connected_device, lines 113-118: the loader object is
\* constructed, which opens the serial port
Open ==
    /\ UNCHANGED notConn
    /\ pc = "start"
    /\ esp' = IF args.chip = "auto" THEN "ESPLoader" ELSE _chip_to_rom_loader(args.chip)
    /\ port_open' = TRUE
    /\ pc' = "connect"
    /\ UNCHANGED <<envVars, secure_download_mode, sync_stub_detected, cmd, reply,
                   last_req, sent, parsed, loop, sync_replies, verified,
                   target_stub, faults>>

\* what _connect_attempt does to the port before it syncs: a control line
\* is set (True: asserted, the pin at 0 V) or the caller sleeps, in ms
SetLine(line, state) == [do |-> line, state |-> state, ms |-> 0]
Sleep(ms) == [do |-> "sleep", state |-> FALSE, ms |-> ms]

\* _setDTR, lines 494-495
_setDTR(state) == <<SetLine("DTR", state)>>

\* _setRTS, lines 497-502: RTS is set and DTR is written again with the
\* state it has (dtr: self._port.dtr)
_setRTS(state, dtr) == <<SetLine("RTS", state), SetLine("DTR", dtr)>>

\* a reset sequence that releases DTR before it releases RTS
ResetSequenceDtrFirst(mode, esp32r0_delay) ==
    IF mode = "no_reset" THEN <<>>
    ELSE _setDTR(FALSE) \o _setRTS(TRUE, FALSE) \o <<Sleep(100)>>
         \o (IF esp32r0_delay THEN <<Sleep(1200)>> ELSE <<>>)
         \o _setDTR(TRUE) \o <<Sleep(50)>> \o _setDTR(FALSE)
         \o (IF esp32r0_delay THEN <<Sleep(400)>> ELSE <<>>)
         \o _setRTS(FALSE, FALSE)

\* _connect_attempt, lines 526-543: the reset-to-bootloader sequence
ResetSequence(mode, esp32r0_delay) ==
    IF mode = "no_reset" THEN <<>>
    ELSE _setDTR(FALSE) \o _setRTS(TRUE, FALSE) \o <<Sleep(100)>>
         \o (IF esp32r0_delay THEN <<Sleep(1200)>> ELSE <<>>)
         \o _setDTR(TRUE) \o _setRTS(FALSE, TRUE)
         \o (IF esp32r0_delay THEN <<Sleep(400)>> ELSE <<>>)
         \o <<Sleep(50)>> \o _setDTR(FALSE)

\* _connect_attempt, lines 504-543: one more attempt is under way
\* (loop.resets counts them), the lines are driven (loop.lines) and the
\* chip restarts in its ROM
ConnectAttempt ==
    /\ UNCHANGED notConn
    /\ pc = "connect"
    /\ target_stub' = IF args.before = "no_reset" THEN target_stub ELSE FALSE
    /\ pc' = "sync_try"
    /\ loop' = [loop EXCEPT !.tries = 0, !.resets = loop.resets + 1,
                            !.lines = ResetSequence(args.before, loop.delay)]
    /\ UNCHANGED <<envVars, esp, port_open, secure_download_mode,
                   sync_stub_detected, cmd, reply, last_req, sent, parsed,
                   sync_replies, verified, faults>>

\* _connect_attempt, lines 545-547, and sync, line 482: input and output are
\* flushed and the SYNC request is issued
SyncTry ==
    /\ UNCHANGED notConn
    /\ pc = "sync_try"
    /\ cmd' = Call("SYNC", TRUE, "", FALSE)
    /\ pc' = "sync"
    /\ sync_replies' = <<>>
    /\ sent' = <<>>
    /\ loop' = [loop EXCEPT !.before = sync_stub_detected]
    /\ UNCHANGED <<envVars, esp, port_open, secure_download_mode,
                   sync_stub_detected, reply, last_req, parsed, verified,
                   target_stub, faults>>

\* connect, lines 578-589, and _connect_attempt, lines 549-557: a sync that
\* raised FatalError is retried 5 times per attempt, without and then with the
\* esp32r0 delay, for `attempts` rounds
SyncFailed ==
    IF loop.tries + 1 < 5
      THEN /\ pc' = "sync_try"
           /\ loop' = [loop EXCEPT !.tries = loop.tries + 1]
           /\ cmd' = Idle
    ELSE IF ~loop.delay
      THEN /\ pc' = "connect"
           /\ loop' = [loop EXCEPT !.delay = TRUE]
           /\ cmd' = Idle
    ELSE IF loop.attempt + 1 < DEFAULT_CONNECT_ATTEMPTS
      THEN /\ pc' = "connect"
           /\ loop' = [loop EXCEPT !.delay = FALSE, !.attempt = loop.attempt + 1]
           /\ cmd' = Idle
    ELSE Raise("FatalError")

\* a sync that kept `flag` regardless of the drained replies
SyncDrainedKeep(flag, val) == flag

\* sync, line 492: self.sync_stub_detected &= val == 0
SyncDrained(flag, val) == flag /\ val = Zero

\* sync, lines 482-483: the reply to SYNC sets the flag
SyncReply ==
    /\ UNCHANGED notConn
    /\ pc = "sync"
    /\ Returned
    /\ IF reply.kind = "ok"
         THEN /\ sync_stub_detected' = (reply.val = Zero)
              /\ sync_replies' = <<reply.val>>
              /\ pc' = "drain"
              /\ cmd' = Call("NONE", TRUE, "", FALSE)
              /\ UNCHANGED loop
         ELSE /\ IF reply.kind = "FatalError" THEN SyncFailed
                 ELSE Raise(reply.kind)
              /\ UNCHANGED <<sync_stub_detected, sync_replies>>
    /\ UNCHANGED <<envVars, esp, port_open, secure_download_mode, reply,
                   last_req, sent, parsed, verified, target_stub, faults>>

\* sync, lines 490-492: seven more replies are read with command()
DrainReply ==
    /\ UNCHANGED notConn
    /\ pc = "drain"
    /\ Returned
    /\ IF reply.kind = "ok"
         THEN /\ sync_stub_detected' = SyncDrained(sync_stub_detected, reply.val)
              /\ sync_replies' = Append(sync_replies, reply.val)
              /\ IF Len(sync_replies) + 1 = 8
                   THEN pc' = "connected" /\ cmd' = Idle
                   ELSE pc' = "drain" /\ cmd' = Call("NONE", TRUE, "", FALSE)
              /\ UNCHANGED loop
         ELSE /\ IF reply.kind = "FatalError" THEN SyncFailed
                 ELSE Raise(reply.kind)
              /\ UNCHANGED <<sync_stub_detected, sync_replies>>
    /\ UNCHANGED <<envVars, esp, port_open, secure_download_mode, reply,
                   last_req, sent, parsed, verified, target_stub, faults>>

\* connect, lines 594-596, and detect_chip, line 353: the magic register is
\* read, by the loader of the named chip or by the detecting ESPLoader
ReadMagic ==
    /\ UNCHANGED notConn
    /\ pc = "connected"
    /\ cmd' = Call("READ_REG", TRUE, "CHIP_DETECT_MAGIC_REG_ADDR", FALSE)
    /\ pc' = "magic"
    /\ sync_replies' = <<>>
    /\ sent' = <<>>
    /\ loop' = Loop0
    /\ UNCHANGED <<envVars, esp, port_open, secure_download_mode,
                   sync_stub_detected, reply, last_req, parsed, verified,
                   target_stub, faults>>

\* a read_reg that reports every failure of command() as a FatalError
ReadRegAllFatal(r) ==
    IF r.kind # "ok" THEN [err |-> "FatalError", val |-> Zero]
    ELSE IF r.data[1] # 0 THEN [err |-> "FatalError", val |-> Zero]
    ELSE [err |-> "none", val |-> r.val]
\* read_reg, lines 621-625, on what command() returned
ReadReg(r) ==
    IF r.kind # "ok" THEN [err |-> r.kind, val |-> Zero]
    ELSE IF r.data[1] # 0 THEN [err |-> "FatalError", val |-> Zero]
    ELSE [err |-> "none", val |-> r.val]

\* _post_connect: ESP32S2ROM asks uses_usb(), which reads UARTDEV_BUF_NO
\* unless the loader is in secure download mode
PostConnect(cls, secure) ==
    IF IsInstance(cls, "ESP32S2ROM") /\ ~secure
      THEN /\ pc' = "post_connect"
           /\ cmd' = Call("READ_REG", TRUE, "UARTDEV_BUF_NO", FALSE)
      ELSE /\ pc' = "chip_info"
           /\ cmd' = Idle

\* detect_chip, lines 355-370, and connect, lines 597-609
MagicReply ==
    /\ UNCHANGED notConn
    /\ pc = "magic"
    /\ Returned
    /\ LET r == ReadReg(reply)
           actually == DetectClass(r.val)
       IN IF args.chip = "auto"
            THEN \* detect_chip
                 IF r.err # "none"
                   THEN /\ Raise("FatalError")
                        /\ UNCHANGED <<esp, secure_download_mode>>
                 ELSE IF actually = None
                   THEN /\ Raise("FatalError")
                        /\ UNCHANGED <<esp, secure_download_mode>>
                 ELSE /\ esp' = IF sync_stub_detected THEN STUB_CLASS(actually)
                                ELSE actually
                      /\ PostConnect(actually, FALSE)
                      /\ UNCHANGED <<loop, secure_download_mode>>
            ELSE \* connect with detecting false
                 IF r.err = "UnsupportedCommandError"
                   THEN /\ secure_download_mode' = TRUE
                        /\ PostConnect(esp, TRUE)
                        /\ UNCHANGED <<esp, loop>>
                 ELSE IF r.err # "none"
                   THEN /\ Raise(r.err)
                        /\ UNCHANGED <<esp, secure_download_mode>>
                 ELSE IF r.val # CHIP_DETECT_MAGIC_VALUE(esp) /\ actually # None
                   THEN /\ Raise("FatalError")
                        /\ UNCHANGED <<esp, secure_download_mode>>
                 ELSE /\ PostConnect(esp, FALSE)
                      /\ UNCHANGED <<esp, loop, secure_download_mode>>
    /\ UNCHANGED <<envVars, port_open, sync_stub_detected, reply, last_req,
                   sent, parsed, sync_replies, verified, target_stub, faults>>

\* uses_usb, lines 1742-1744, on the value read
PostConnectReply ==
    /\ UNCHANGED notConn
    /\ pc = "post_connect"
    /\ Returned
    /\ IF ReadReg(reply).err # "none"
         THEN Raise(ReadReg(reply).err)
         ELSE pc' = "chip_info" /\ cmd' = Idle /\ UNCHANGED loop
    /\ UNCHANGED <<envVars, esp, port_open, secure_download_mode,
                   sync_stub_detected, reply, last_req, sent, parsed,
                   sync_replies, verified, target_stub, faults>>

(***************************************************************************)
(* main(): chip information, stub upload, baud rate, SPI attach            *)
(***************************************************************************)
\* main, lines 3882-3888: description, features, crystal and MAC are read
\* with read_reg unless the loader is in secure download mode
ChipInfo ==
    /\ UNCHANGED notConn
    /\ pc = "chip_info"
    /\ IF secure_download_mode
         THEN pc' = "want_stub" /\ UNCHANGED <<cmd, loop>>
         ELSE /\ pc' = "info"
              /\ cmd' = Call("READ_REG", TRUE, "EFUSE", FALSE)
              /\ loop' = [loop EXCEPT !.k = 1]
    /\ UNCHANGED <<envVars, esp, port_open, secure_download_mode,
                   sync_stub_detected, reply, last_req, sent, parsed,
                   sync_replies, verified, target_stub, faults>>

InfoReply ==
    /\ UNCHANGED notConn
    /\ pc = "info"
    /\ Returned
    /\ IF ReadReg(reply).err # "none" THEN Raise(ReadReg(reply).err)
       ELSE IF loop.k < InfoReads
         THEN /\ cmd' = Call("READ_REG", TRUE, "EFUSE", FALSE)
              /\ loop' = [loop EXCEPT !.k = loop.k + 1]
              /\ UNCHANGED pc
       ELSE pc' = "want_stub" /\ cmd' = Idle /\ UNCHANGED loop
    /\ UNCHANGED <<envVars, esp, port_open, secure_download_mode,
                   sync_stub_detected, reply, last_req, sent, parsed,
                   sync_replies, verified, target_stub, faults>>

\* main, lines 3890-3893: --no-stub is forced in secure download mode
NoStubOf(a) == a.no_stub \/ secure_download_mode

NoStub == NoStubOf(args)

\* main, lines 3890-3895, and run_stub, lines 766-778
RunStub ==
    /\ UNCHANGED notConn
    /\ pc = "want_stub"
    /\ \E no_stub \in BOOLEAN : args' = [args EXCEPT !.no_stub = no_stub]
    /\ IF NoStubOf(args')
         THEN pc' = "baud" /\ UNCHANGED <<esp, cmd, loop, sent>>
       ELSE IF sync_stub_detected
         THEN /\ esp' = STUB_CLASS(esp)
              /\ pc' = "baud"
              /\ UNCHANGED <<cmd, loop, sent>>
       ELSE /\ cmd' = Call("MEM_BEGIN", TRUE, "text", TRUE)
            /\ pc' = "mem_begin"
            /\ loop' = [loop EXCEPT !.field = "text", !.seq = 0]
            /\ sent' = <<>>
            /\ UNCHANGED esp
    /\ UNCHANGED <<files, target_chip, target_secure, port_open,
                   secure_download_mode, sync_stub_detected, reply, last_req,
                   parsed, sync_replies, verified, target_stub, faults>>

\* run_stub, lines 779-783: the blocks of the field follow its mem_begin
MemBeginReply ==
    /\ UNCHANGED notConn
    /\ pc = "mem_begin"
    /\ Returned
    /\ IF Checked.err # "none" THEN Raise(Checked.err)
       ELSE /\ cmd' = Call("MEM_DATA", TRUE, loop.field, TRUE)
            /\ pc' = "mem_block"
            /\ loop' = [loop EXCEPT !.seq = 0]
    /\ UNCHANGED <<envVars, esp, port_open, secure_download_mode,
                   sync_stub_detected, reply, last_req, sent, parsed,
                   sync_replies, verified, target_stub, faults>>

\* mem_finish sent without waiting for the response in ROM mode
mem_finish_no_wait(cls) == IS_STUB(cls)

\* mem_finish, lines 681-682: check_command is called with the default
\* wait_response=True of command(), line 408
mem_finish_wait_response(cls) == TRUE

\* run_stub, lines 774-785: text, then data, then mem_finish(entry)
MemBlockReply ==
    /\ UNCHANGED notConn
    /\ pc = "mem_block"
    /\ Returned
    /\ IF Checked.err # "none" THEN Raise(Checked.err)
       ELSE IF loop.seq + 1 < StubBlocks
         THEN /\ cmd' = Call("MEM_DATA", TRUE, loop.field, TRUE)
              /\ loop' = [loop EXCEPT !.seq = loop.seq + 1]
              /\ UNCHANGED pc
       ELSE IF loop.field = "text"
         THEN /\ cmd' = Call("MEM_BEGIN", TRUE, "data", TRUE)
              /\ pc' = "mem_begin"
              /\ loop' = [loop EXCEPT !.field = "data", !.seq = 0]
       ELSE /\ cmd' = Call("MEM_END", mem_finish_wait_response(esp), "entry", TRUE)
            /\ pc' = "mem_end"
            /\ UNCHANGED loop
    /\ UNCHANGED <<envVars, esp, port_open, secure_download_mode,
                   sync_stub_detected, reply, last_req, sent, parsed,
                   sync_replies, verified, target_stub, faults>>

\* mem_finish, lines 680-687: a FatalError is ignored unless the loader is a
\* stub; run_stub then waits for the stub's greeting
MemEndReply ==
    /\ UNCHANGED notConn
    /\ pc = "mem_end"
    /\ Returned
    /\ IF Checked.err = "none" \/ (IsFatalError(Checked.err) /\ ~IS_STUB(esp))
         THEN pc' = "ohai" /\ cmd' = Idle /\ UNCHANGED loop
         ELSE Raise(Checked.err)
    /\ UNCHANGED <<envVars, esp, port_open, secure_download_mode,
                   sync_stub_detected, reply, last_req, sent, parsed,
                   sync_replies, verified, target_stub, faults>>

\* run_stub, lines 787-793: p = self.read(); anything but b'OHAI', or no
\* packet before the timeout, is a FatalError.  When the read of the MEM_END
\* response raised inside slip_reader (the FatalError mem_finish swallowed),
\* the generator is finished and next() raises StopIteration
StubHello ==
    /\ UNCHANGED notConn
    /\ pc = "ohai"
    /\ \E p \in (IF target_stub THEN {"OHAI"} ELSE {"timeout"})
                \cup (IF faults < MaxFaults THEN {"timeout", "other"} ELSE {}) :
          /\ faults' = IF target_stub /\ p # "OHAI" THEN faults + 1 ELSE faults
          /\ IF reply.kind = "FatalError"
               THEN Raise("StopIteration") /\ UNCHANGED esp
             ELSE IF p = "OHAI"
               THEN /\ esp' = STUB_CLASS(esp)
                    /\ pc' = "baud"
                    /\ UNCHANGED <<cmd, loop>>
               ELSE Raise("FatalError") /\ UNCHANGED esp
    /\ UNCHANGED <<envVars, port_open, secure_download_mode,
                   sync_stub_detected, reply, last_req, sent, parsed,
                   sync_replies, verified, target_stub>>

\* main, lines 3900-3904, and change_baud, lines 853-862: a loader that is
\* neither a stub nor an ESP32-family ROM raises NotImplementedInROMError,
\* which main catches
ChangeBaud ==
    /\ UNCHANGED notConn
    /\ pc = "baud"
    /\ \E raised \in BOOLEAN : args' = [args EXCEPT !.baud_raised = raised]
    /\ IF args'.baud_raised /\ StubOrEsp32(esp)
         THEN /\ cmd' = Call("CHANGE_BAUDRATE", TRUE, "", FALSE)
              /\ pc' = "baud_reply"
         ELSE pc' = "attach" /\ UNCHANGED cmd
    /\ UNCHANGED <<files, target_chip, target_secure, esp, port_open, secure_download_mode,
                   sync_stub_detected, reply, last_req, sent, parsed, loop,
                   sync_replies, verified, target_stub, faults>>

\* change_baud, lines 858-862: the reply is read with command(), its status is
\* not inspected
BaudReply ==
    /\ UNCHANGED notConn
    /\ pc = "baud_reply"
    /\ Returned
    /\ IF reply.kind # "ok" THEN Raise(reply.kind)
       ELSE pc' = "attach" /\ cmd' = Idle /\ UNCHANGED loop
    /\ UNCHANGED <<envVars, esp, port_open, secure_download_mode,
                   sync_stub_detected, reply, last_req, sent, parsed,
                   sync_replies, verified, target_stub, faults>>

\* main, lines 3907-3916, with no --spi-connection: under --no-stub the flash
\* is attached; the ESP8266 ROM does it with flash_begin(0, 0), lines 1234-1240
SpiAttach ==
    /\ UNCHANGED notConn
    /\ pc = "attach"
    /\ IF NoStub
         THEN /\ cmd' = Call(IF IsInstance(esp, "ESP8266ROM") /\ ~IS_STUB(esp)
                               THEN "FLASH_BEGIN" ELSE "SPI_ATTACH",
                             TRUE, "", TRUE)
              /\ pc' = "attach_reply"
         ELSE pc' = "operation" /\ UNCHANGED cmd
    /\ UNCHANGED <<envVars, esp, port_open, secure_download_mode,
                   sync_stub_detected, reply, last_req, sent, parsed, loop,
                   sync_replies, verified, target_stub, faults>>

AttachReply ==
    /\ UNCHANGED notConn
    /\ pc = "attach_reply"
    /\ Returned
    /\ IF Checked.err # "none" THEN Raise(Checked.err)
       ELSE pc' = "operation" /\ cmd' = Idle /\ UNCHANGED loop
    /\ UNCHANGED <<envVars, esp, port_open, secure_download_mode,
                   sync_stub_detected, reply, last_req, sent, parsed,
                   sync_replies, verified, target_stub, faults>>

(***************************************************************************)
(* write_flash                                                             *)
(***************************************************************************)
\* write_flash, lines 3118-3119, with neither --compress nor --no-compress
Compress == ~NoStub

AnyEncrypted(fs) == \E i \in 1..Len(fs) : fs[i].encrypted

\* flash_begin, lines 704-705: the ROMs that take the fifth parameter
RomEncryptedParam(cls) ==
    /\ \/ IsInstance(cls, "ESP32S2ROM")
       \/ IsInstance(cls, "ESP32S3BETA2ROM")
       \/ IsInstance(cls, "ESP32C3ROM")
    /\ ~IS_STUB(cls)

\* write_flash, lines 3122-3151: the checks before an encrypted write read
\* efuses through methods only the ESP32 family defines
WriteFlash ==
    /\ UNCHANGED notConn
    /\ pc = "operation"
    /\ sent' = <<>>
    /\ files' \in FileSets
    /\ IF AnyEncrypted(files') /\ ~secure_download_mode
         THEN IF ~IsInstance(esp, "ESP32ROM")
                THEN Raise("AttributeError")
                ELSE /\ cmd' = Call("READ_REG", TRUE, "EFUSE", FALSE)
                     /\ pc' = "efuse"
                     /\ UNCHANGED loop
         ELSE /\ pc' = "file"
              /\ loop' = [loop EXCEPT !.file = 1]
              /\ UNCHANGED cmd
    /\ UNCHANGED <<args, target_chip, target_secure, esp, port_open,
                   secure_download_mode, sync_stub_detected, reply, last_req,
                   parsed, sync_replies, verified, target_stub, faults>>

\* write_flash, lines 3125-3151: the efuse values decide do_write
EfuseReply ==
    /\ UNCHANGED notConn
    /\ pc = "efuse"
    /\ Returned
    /\ IF ReadReg(reply).err # "none" THEN Raise(ReadReg(reply).err)
       ELSE \E do_write \in BOOLEAN :
              IF do_write
                THEN /\ pc' = "file"
                     /\ loop' = [loop EXCEPT !.file = 1]
                     /\ cmd' = Idle
                ELSE Raise("FatalError")
    /\ UNCHANGED <<envVars, esp, port_open, secure_download_mode,
                   sync_stub_detected, reply, last_req, sent, parsed,
                   sync_replies, verified, target_stub, faults>>

\* the request that carries one block of the file, lines 3216-3232 with
\* flash_block, flash_encrypt_block (lines 721-731) and flash_defl_block
BlockOp(cls, compress, encrypted) ==
    IF compress THEN "FLASH_DEFL_DATA"
    ELSE IF encrypted
           /\ ~((IsInstance(cls, "ESP32S2ROM") \/ IsInstance(cls, "ESP32C3ROM"))
                /\ ~IS_STUB(cls))
      THEN "FLASH_ENCRYPT_DATA"
    ELSE "FLASH_DATA"

\* write_flash, lines 3187-3208: empty files are skipped; the others start
\* with flash_defl_begin or flash_begin
NextFile ==
    /\ UNCHANGED notConn
    /\ pc = "file"
    /\ IF loop.file > Len(files)
         THEN pc' = "leaving" /\ UNCHANGED <<cmd, loop, sent>>
       ELSE IF files[loop.file].size = 0
         THEN /\ loop' = [loop EXCEPT !.file = loop.file + 1]
              /\ UNCHANGED <<pc, cmd, sent>>
       ELSE LET encrypted == files[loop.file].encrypted
                compress == Compress /\ ~encrypted
            IN /\ cmd' = Call(IF compress THEN "FLASH_DEFL_BEGIN" ELSE "FLASH_BEGIN",
                              TRUE,
                              IF RomEncryptedParam(esp)
                                THEN (IF encrypted /\ ~compress THEN "1" ELSE "0")
                                ELSE "",
                              TRUE)
               /\ pc' = "begin"
               /\ loop' = [loop EXCEPT !.seq = 0]
               /\ sent' = <<>>
    /\ UNCHANGED <<envVars, esp, port_open, secure_download_mode,
                   sync_stub_detected, reply, last_req, parsed,
                   sync_replies, verified, target_stub, faults>>

\* block number seq of the file is sent: flash_defl_block is
\* stub_and_esp32_function_only
SendBlock(seq) ==
    LET encrypted == files[loop.file].encrypted
        compress == Compress /\ ~encrypted
    IN IF compress /\ ~StubOrEsp32(esp)
         THEN Raise("NotImplementedInROMError")
         ELSE /\ cmd' = Call(BlockOp(esp, compress, encrypted), TRUE, "", TRUE)
              /\ pc' = "block"
              /\ loop' = [loop EXCEPT !.seq = seq]

\* write_flash, lines 3269-3280: the flash MD5 is asked for unless the file
\* was encrypted or the loader is in secure download mode;
\* NotImplementedInROMError from flash_md5sum is passed over
AfterBlocks ==
    IF ~files[loop.file].encrypted /\ ~secure_download_mode /\ StubOrEsp32(esp)
      THEN /\ cmd' = Call("SPI_FLASH_MD5", TRUE, "", TRUE)
           /\ pc' = "md5"
           /\ UNCHANGED loop
      ELSE /\ pc' = "file"
           /\ cmd' = Idle
           /\ loop' = [loop EXCEPT !.file = loop.file + 1]

BeginReply ==
    /\ UNCHANGED notConn
    /\ pc = "begin"
    /\ Returned
    /\ IF Checked.err # "none" THEN Raise(Checked.err)
       ELSE SendBlock(0)
    /\ UNCHANGED <<envVars, esp, port_open, secure_download_mode,
                   sync_stub_detected, reply, last_req, sent, parsed,
                   sync_replies, verified, target_stub, faults>>

\* write_flash, lines 3211-3239: the blocks in order; a stub is then asked
\* for the magic register so that the last block is known to be written
BlockReply ==
    /\ UNCHANGED notConn
    /\ pc = "block"
    /\ Returned
    /\ IF Checked.err # "none" THEN Raise(Checked.err)
       ELSE IF loop.seq + 1 < files[loop.file].size THEN SendBlock(loop.seq + 1)
       ELSE IF IS_STUB(esp)
         THEN /\ cmd' = Call("READ_REG", TRUE, "CHIP_DETECT_MAGIC_REG_ADDR", FALSE)
              /\ pc' = "flush"
              /\ UNCHANGED loop
       ELSE AfterBlocks
    /\ UNCHANGED <<envVars, esp, port_open, secure_download_mode,
                   sync_stub_detected, reply, last_req, sent, parsed,
                   sync_replies, verified, target_stub, faults>>

FlushReply ==
    /\ UNCHANGED notConn
    /\ pc = "flush"
    /\ Returned
    /\ IF ReadReg(reply).err # "none" THEN Raise(ReadReg(reply).err)
       ELSE AfterBlocks
    /\ UNCHANGED <<envVars, esp, port_open, secure_download_mode,
                   sync_stub_detected, reply, last_req, sent, parsed,
                   sync_replies, verified, target_stub, faults>>

\* flash_md5sum, lines 846-851: 32 bytes are hex text already, 16 bytes are
\* formatted with hexify(res).lower()
flash_md5sum(res) ==
    IF Len(res) = 32 THEN [err |-> "none", res |-> res]
    ELSE IF Len(res) = 16 THEN [err |-> "none", res |-> Lower(hexify(res, TRUE))]
    ELSE [err |-> "FatalError", res |-> <<>>]

\* a comparison that accepts every digest
Md5MatchesAny(res, calcmd5) == TRUE

\* write_flash, line 3272: res != calcmd5 raises FatalError
Md5Matches(res, calcmd5) == res = calcmd5

\* write_flash, lines 3270-3278
Md5Reply ==
    /\ UNCHANGED notConn
    /\ pc = "md5"
    /\ Returned
    /\ IF Checked.err # "none"
         THEN Raise(Checked.err) /\ UNCHANGED verified
       ELSE LET md5 == flash_md5sum(Checked.result)
            IN IF md5.err # "none" \/ ~Md5Matches(md5.res, HexDigest(1))
                 THEN Raise("FatalError") /\ UNCHANGED verified
                 ELSE /\ verified' = (loop.file :> md5.res) @@ verified
                      /\ pc' = "file"
                      /\ cmd' = Idle
                      /\ loop' = [loop EXCEPT !.file = loop.file + 1]
    /\ UNCHANGED <<envVars, esp, port_open, secure_download_mode,
                   sync_stub_detected, reply, last_req, sent, parsed,
                   sync_replies, target_stub, faults>>

\* a write_flash that always leaves with flash_finish
LeaveFinishOpPlain(compress, last_file_encrypted) == "FLASH_END"

\* write_flash, lines 3291-3298: flash_defl_finish(False) when args.compress
\* and the last file was not encrypted, flash_finish(False) otherwise
LeaveFinishOp(compress, last_file_encrypted) ==
    IF compress /\ ~last_file_encrypted THEN "FLASH_DEFL_END" ELSE "FLASH_END"

\* write_flash, lines 3284-3298: a stub is sent flash_begin(0, 0) and then
\* flash_defl_finish(False) or flash_finish(False)
Leaving ==
    /\ UNCHANGED notConn
    /\ pc = "leaving"
    /\ IF IS_STUB(esp)
         THEN /\ cmd' = Call("FLASH_BEGIN", TRUE, "0, 0", TRUE)
              /\ pc' = "leave_begin"
         ELSE pc' = "after" /\ UNCHANGED cmd
    /\ UNCHANGED <<envVars, esp, port_open, secure_download_mode,
                   sync_stub_detected, reply, last_req, sent, parsed, loop,
                   sync_replies, verified, target_stub, faults>>

LeaveBeginReply ==
    /\ UNCHANGED notConn
    /\ pc = "leave_begin"
    /\ Returned
    /\ IF Checked.err # "none" THEN Raise(Checked.err)
       ELSE /\ cmd' = Call(LeaveFinishOp(Compress, files[Len(files)].encrypted),
                           TRUE, "stay", TRUE)
            /\ pc' = "leave_end"
            /\ UNCHANGED loop
    /\ UNCHANGED <<envVars, esp, port_open, secure_download_mode,
                   sync_stub_detected, reply, last_req, sent, parsed,
                   sync_replies, verified, target_stub, faults>>

LeaveEndReply ==
    /\ UNCHANGED notConn
    /\ pc = "leave_end"
    /\ Returned
    /\ IF Checked.err # "none" THEN Raise(Checked.err)
       ELSE pc' = "after" /\ cmd' = Idle /\ UNCHANGED loop
    /\ UNCHANGED <<envVars, esp, port_open, secure_download_mode,
                   sync_stub_detected, reply, last_req, sent, parsed,
                   sync_replies, verified, target_stub, faults>>

(***************************************************************************)
(* main(): after the operation                                             *)
(***************************************************************************)
\* main, lines 3932-3951, with hard_reset (lines 1117-1120) and soft_reset
\* (lines 1122-1141)
After ==
    /\ UNCHANGED notConn
    /\ pc = "after"
    /\ sent' = <<>>
    /\ \E after \in AfterModes : args' = [args EXCEPT !.after = after]
    /\ IF args'.after = "hard_reset"
         THEN /\ target_stub' = FALSE
              /\ pc' = "close"
              /\ UNCHANGED <<cmd, loop>>
       ELSE IF args'.after = "soft_reset"
         THEN /\ UNCHANGED target_stub
              /\ IF ~IS_STUB(esp)
                   THEN /\ cmd' = Call("FLASH_BEGIN", TRUE, "", TRUE)
                        /\ pc' = "reset_begin"
                        /\ UNCHANGED loop
                 ELSE IF CHIP_NAME(esp) # "ESP8266"
                   THEN Raise("FatalError")
                 ELSE /\ cmd' = Call("RUN_USER_CODE", FALSE, "", FALSE)
                      /\ pc' = "reset_run"
                      /\ UNCHANGED loop
       ELSE /\ UNCHANGED target_stub
            /\ IF IS_STUB(esp)
                 THEN /\ cmd' = Call("FLASH_BEGIN", TRUE, "", TRUE)
                      /\ pc' = "reset_begin"
                      /\ UNCHANGED loop
                 ELSE pc' = "close" /\ UNCHANGED <<cmd, loop>>
    /\ UNCHANGED <<files, target_chip, target_secure, esp, port_open, secure_download_mode,
                   sync_stub_detected, reply, last_req, parsed,
                   sync_replies, verified, faults>>

\* soft_reset, lines 1128-1129 and 1134-1135: flash_finish follows flash_begin
ResetBeginReply ==
    /\ UNCHANGED notConn
    /\ pc = "reset_begin"
    /\ Returned
    /\ IF Checked.err # "none" THEN Raise(Checked.err)
       ELSE /\ cmd' = Call("FLASH_END", TRUE,
                           IF IS_STUB(esp) THEN "reboot" ELSE "run", TRUE)
            /\ pc' = "reset_end"
            /\ UNCHANGED loop
    /\ UNCHANGED <<envVars, esp, port_open, secure_download_mode,
                   sync_stub_detected, reply, last_req, sent, parsed,
                   sync_replies, verified, target_stub, faults>>

ResetEndReply ==
    /\ UNCHANGED notConn
    /\ pc = "reset_end"
    /\ Returned
    /\ IF Checked.err # "none" THEN Raise(Checked.err)
       ELSE pc' = "close" /\ cmd' = Idle /\ UNCHANGED loop
    /\ UNCHANGED <<envVars, esp, port_open, secure_download_mode,
                   sync_stub_detected, reply, last_req, sent, parsed,
                   sync_replies, verified, target_stub, faults>>

\* soft_reset, line 1141: command(ESP_RUN_USER_CODE, wait_response=False)
\* has returned without reading
ResetRunSent ==
    /\ UNCHANGED notConn
    /\ pc = "reset_run"
    /\ Returned
    /\ pc' = "close"
    /\ cmd' = Idle
    /\ UNCHANGED <<envVars, esp, port_open, secure_download_mode,
                   sync_stub_detected, reply, last_req, sent, parsed, loop,
                   sync_replies, verified, target_stub, faults>>

\* main, lines 3953-3954: esp._port.close()
Close ==
    /\ UNCHANGED notConn
    /\ pc = "close"
    /\ port_open' = FALSE
    /\ pc' = "done"
    /\ UNCHANGED <<envVars, esp, secure_download_mode, sync_stub_detected,
                   cmd, reply, last_req, sent, parsed, loop, sync_replies,
                   verified, target_stub, faults>>

\* _main, lines 4301-4306: an exception leaves main(); a FatalError is
\* printed and the process exits with status 2.  Nothing on this path
\* touches the port.
Exit ==
    /\ UNCHANGED notConn
    /\ pc = "raised"
    /\ pc' = "exited"
    /\ UNCHANGED <<envVars, esp, port_open, secure_download_mode,
                   sync_stub_detected, cmd, reply, last_req, sent, parsed,
                   loop, sync_replies, verified, target_stub, faults>>

(***************************************************************************)
(* Byte strings of firmware images.  A byte string is kept as a sequence   *)
(* of runs [b, e]: byte b repeated up to (not including) offset e of the   *)
(* string, adjacent runs having different bytes, so that equal strings     *)
(* have equal representations.                                             *)
(***************************************************************************)
Run(b, n) == IF n <= 0 THEN <<>> ELSE <<[b |-> b, e |-> n]>>

\* len(x)
RLen(x) == IF x = <<>> THEN 0 ELSE x[Len(x)].e

\* the offset at which run i of x starts
RStart(x, i) == IF i = 1 THEN 0 ELSE x[i - 1].e

ShiftedBy(y, d) == [i \in 1..Len(y) |-> [b |-> y[i].b, e |-> y[i].e + d]]

\* x + y
RCat(x, y) ==
    IF x = <<>> THEN y
    ELSE IF y = <<>> THEN x
    ELSE IF x[Len(x)].b = y[1].b
      THEN SubSeq(x, 1, Len(x) - 1) \o ShiftedBy(y, RLen(x))
      ELSE x \o ShiftedBy(y, RLen(x))

\* x[:n]
RTake(x, n) ==
    LET k == Cardinality({i \in 1..Len(x) : RStart(x, i) < n})
    IN  IF n <= 0 \/ k = 0 THEN <<>>
        ELSE [i \in 1..k |-> [b |-> x[i].b, e |-> IF x[i].e < n THEN x[i].e ELSE n]]

\* x[n:]
RDrop(x, n) ==
    LET k == Cardinality({i \in 1..Len(x) : x[i].e > n})
        first == Len(x) - k
    IN  IF n <= 0 THEN x
        ELSE IF k = 0 THEN <<>>
        ELSE [i \in 1..k |-> [b |-> x[first + i].b, e |-> x[first + i].e - n]]

\* x[pos:pos + n]
RSlice(x, pos, n) == RTake(RDrop(x, pos), n)

\* x[i], for i < len(x)
RByte(x, i) == x[CHOOSE k \in 1..Len(x) : RStart(x, k) <= i /\ i < x[k].e].b

\* x[:i] + bytes([b]) + x[i + 1:]
RSetByte(x, i, b) == RCat(RCat(RTake(x, i), Run(b, 1)), RDrop(x, i + 1))

\* the byte string of a sequence of byte values
RECURSIVE Bytes(_)
Bytes(s) == IF s = <<>> THEN <<>> ELSE RCat(Run(Head(s), 1), Bytes(Tail(s)))

\* struct.pack('<I', v) and struct.unpack('<I', x[pos:pos + 4])
PackU32(v) ==
    Bytes(<<v % 256, (v \div 256) % 256, (v \div 65536) % 256, (v \div 16777216) % 256>>)

UnpackU32(x, pos) ==
    RByte(x, pos) + 256 * RByte(x, pos + 1) + 65536 * RByte(x, pos + 2)
    + 16777216 * RByte(x, pos + 3)

\* a ^ b on bytes
RECURSIVE Xor(_, _)
Xor(a, b) ==
    IF a = 0 THEN b
    ELSE IF b = 0 THEN a
    ELSE (((a % 2) + (b % 2)) % 2) + 2 * Xor(a \div 2, b \div 2)

\* ESPLoader.checksum(data, state), lines 398-405
RECURSIVE checksum(_, _)
checksum(data, state) ==
    IF data = <<>> THEN state
    ELSE LET before == checksum(SubSeq(data, 1, Len(data) - 1), state)
             last == data[Len(data)]
         IN  IF (last.e - RStart(data, Len(data))) % 2 = 1
               THEN Xor(before, last.b) ELSE before

\* pad_to(data, alignment, pad_character), lines 2952-2957
pad_to(data, alignment, pad_character) ==
    IF RLen(data) % alignment # 0
      THEN RCat(data, Run(pad_character, alignment - (RLen(data) % alignment)))
      ELSE data

\* align_file_position(f, size), lines 2891-2894: the position after the seek
\* a seek of size - 1 bytes whatever the position is
align_file_position_full(pos, size) == pos + (size - 1)

align_file_position(pos, size) == pos + ((size - 1) - (pos % size))

\* hashlib.sha256(x).digest() and esp8266_crc32(x): the digest of a byte
\* string is the string under a tag, so that different strings have
\* different digests
sha256(x) == [sha256 |-> x]

esp8266_crc32(x) == [crc32 |-> x]

(***************************************************************************)
(* Firmware images: ImageSegment, BaseFirmwareImage and its subclasses     *)
(***************************************************************************)
ESP_IMAGE_MAGIC == 233
ESP_CHECKSUM_MAGIC == 239
IMAGE_V2_MAGIC == 234
IMAGE_V2_SEGMENT == 4
SEG_HEADER_LEN == 8
IROM_ALIGN == 65536
WP_PIN_DISABLED == 238
MAX_SEGMENTS == 16
FLASH_SEGMENT_MIN_TAIL == 36

ImageClasses == {"ESP8266ROMFirmwareImage", "ESP8266V2FirmwareImage",
                 "ESP32FirmwareImage", "ESP32S2FirmwareImage"}

Esp32Images == {"ESP32FirmwareImage", "ESP32S2FirmwareImage"}

\* the ROM_LOADER attribute of the image classes
ROM_LOADER(cls) ==
    CASE cls = "ESP32FirmwareImage" -> "ESP32ROM"
      [] cls = "ESP32S2FirmwareImage" -> "ESP32S2ROM"
      [] OTHER -> "ESP8266ROM"

IROM_MAP_START(rom) ==
    CASE rom = "ESP32ROM" -> 1074593792      \* 0x400d0000
      [] rom = "ESP32S2ROM" -> 1074266112    \* 0x40080000
      [] OTHER -> 1075838976                 \* 0x40200000

IROM_MAP_END(rom) ==
    CASE rom = "ESP32ROM" -> 1077936128      \* 0x40400000
      [] rom = "ESP32S2ROM" -> 1085800448    \* 0x40b80000
      [] OTHER -> 1076887552                 \* 0x40300000

DROM_MAP_START(rom) ==
    CASE rom = "ESP32ROM" -> 1061158912      \* 0x3F400000
      [] OTHER -> 1056964608                 \* 0x3F000000 (ESP32S2ROM)

DROM_MAP_END(rom) ==
    CASE rom = "ESP32ROM" -> 1065353216      \* 0x3F800000
      [] OTHER -> 1061093376                 \* 0x3F3F0000 (ESP32S2ROM)

IMAGE_CHIP_ID(rom) == IF rom = "ESP32S2ROM" THEN 2 ELSE 0

\* file_offs of a segment that has none (None in the source)
NoOffs == -1

\* ImageSegment.__init__
ImageSegment(addr, data, file_offs) ==
    [addr |-> addr,
     data |-> IF addr # 0 THEN pad_to(data, 4, 0) ELSE data,
     file_offs |-> file_offs,
     include_in_checksum |-> TRUE]

\* ImageSegment.split_image(split_len): the segment returned and what is
\* left of the segment it was called on
split_image(s, split_len) ==
    [result |-> [s EXCEPT !.data = RTake(s.data, split_len), !.file_offs = NoOffs],
     self   |-> [s EXCEPT !.data = RDrop(s.data, split_len),
                          !.addr = s.addr + split_len,
                          !.file_offs = NoOffs]]

\* BaseFirmwareImage.is_irom_addr
is_irom_addr(addr) ==
    IROM_MAP_START("ESP8266ROM") <= addr /\ addr < IROM_MAP_END("ESP8266ROM")

\* ESP32FirmwareImage.is_flash_addr
is_flash_addr(cls, addr) ==
    \/ IROM_MAP_START(ROM_LOADER(cls)) <= addr /\ addr < IROM_MAP_END(ROM_LOADER(cls))
    \/ DROM_MAP_START(ROM_LOADER(cls)) <= addr /\ addr < DROM_MAP_END(ROM_LOADER(cls))

\* sorted(segs, key=lambda s: s.addr): stable
RECURSIVE Insert(_, _)
Insert(sorted, s) ==
    IF sorted = <<>> THEN <<s>>
    ELSE IF sorted[Len(sorted)].addr <= s.addr THEN Append(sorted, s)
    ELSE Append(Insert(SubSeq(sorted, 1, Len(sorted) - 1), s), sorted[Len(sorted)])

RECURSIVE SortedByAddr(_)
SortedByAddr(segs) ==
    IF segs = <<>> THEN <<>>
    ELSE Insert(SortedByAddr(SubSeq(segs, 1, Len(segs) - 1)), segs[Len(segs)])

\* BaseFirmwareImage.get_irom_segment: the candidates it finds
irom_segments(img) == SelectSeq(img.segments, LAMBDA s : is_irom_addr(s.addr))

\* BaseFirmwareImage.get_non_irom_segments, when get_irom_segment returns
get_non_irom_segments(img) == SelectSeq(img.segments, LAMBDA s : ~is_irom_addr(s.addr))

\* a header with flash_mode and flash_size_freq in each other's place
PackHeaderSwapped(magic, count, img) ==
    RCat(Bytes(<<magic, count, img.flash_size_freq, img.flash_mode>>),
         PackU32(img.entrypoint))

\* struct.pack('<BBBBI', magic, count, flash_mode, flash_size_freq, entrypoint)
PackHeader(magic, count, img) ==
    RCat(Bytes(<<magic, count, img.flash_mode, img.flash_size_freq>>),
         PackU32(img.entrypoint))

\* BaseFirmwareImage.write_common_header
write_common_header(data, img, segments) ==
    RCat(data, PackHeader(ESP_IMAGE_MAGIC, Len(segments), img))

\* ESP32FirmwareImage.save_extended_header, with the drive strengths and
\* min_rev the constructor sets (all zero)
save_extended_header(data, img) ==
    RCat(data,
         Bytes(<<WP_PIN_DISABLED, 0, 0, 0, IMAGE_CHIP_ID(ROM_LOADER(img.cls)), 0, 0,
                 0, 0, 0, 0, 0, 0, 0, 0, IF img.append_digest THEN 1 ELSE 0>>))

\* BaseFirmwareImage.save_segment, with no ELF digest to patch in
\* (elf_sha256_offset is 0)
save_segment(data, segment) ==
    RCat(RCat(data, RCat(PackU32(segment.addr), PackU32(RLen(segment.data)))),
         segment.data)

\* BaseFirmwareImage.append_checksum; the seek past the end of the file
\* fills with zero bytes
append_checksum(data, cs) ==
    RCat(RCat(data, Run(0, align_file_position(RLen(data), 16) - RLen(data))),
         Run(cs, 1))

RECURSIVE save_segments(_, _)
save_segments(data, segments) ==
    IF segments = <<>> THEN data
    ELSE save_segment(save_segments(data, SubSeq(segments, 1, Len(segments) - 1)),
                      segments[Len(segments)])

\* the checksum save() accumulates over the segments it writes
RECURSIVE saved_checksum(_, _)
saved_checksum(segments, cs) ==
    IF segments = <<>> THEN cs
    ELSE checksum(segments[Len(segments)].data,
                  saved_checksum(SubSeq(segments, 1, Len(segments) - 1), cs))

\* BaseFirmwareImage.calculate_checksum, from a starting value
RECURSIVE calculate_checksum(_, _)
calculate_checksum(segments, cs) ==
    IF segments = <<>> THEN cs
    ELSE LET before == calculate_checksum(SubSeq(segments, 1, Len(segments) - 1), cs)
             seg == segments[Len(segments)]
         IN  IF seg.include_in_checksum THEN checksum(seg.data, before) ELSE before

\* get_alignment_data_needed(segment) inside ESP32FirmwareImage.save
get_alignment_data_needed(tell, segment) ==
    LET align_past == (segment.addr % IROM_ALIGN) - SEG_HEADER_LEN
        pad_len == (IROM_ALIGN - (tell % IROM_ALIGN)) + align_past
    IN  IF pad_len = 0 \/ pad_len = IROM_ALIGN THEN 0
        ELSE IF pad_len - SEG_HEADER_LEN < 0
          THEN pad_len - SEG_HEADER_LEN + IROM_ALIGN
          ELSE pad_len - SEG_HEADER_LEN

\* ESP32FirmwareImage.save_flash_segment: the segment as it is written
flash_segment_padded(tell, segment) ==
    LET segment_end_pos == tell + RLen(segment.data) + SEG_HEADER_LEN
        segment_len_remainder == segment_end_pos % IROM_ALIGN
    IN  IF segment_len_remainder < FLASH_SEGMENT_MIN_TAIL
          THEN [segment EXCEPT !.data =
                   RCat(@, Run(0, FLASH_SEGMENT_MIN_TAIL - segment_len_remainder))]
          ELSE segment

(***************************************************************************)
(* Loading: the constructors of the image classes given a file             *)
(***************************************************************************)
NoFile == [data |-> <<>>, tail |-> <<>>, irom |-> <<>>]

NotLoaded ==
    [state |-> "none", error |-> "none", cls |-> "none", segments |-> <<>>,
     entrypoint |-> 0, flash_mode |-> 0, flash_size_freq |-> 0,
     append_digest |-> FALSE, checksum |-> 0, stored_digest |-> <<>>,
     calc_digest |-> <<>>]

LoadError(e) == [NotLoaded EXCEPT !.state = "error", !.error = e]

\* BaseFirmwareImage.load_common_header at file position pos
load_common_header(data, pos, expected_magic) ==
    IF RLen(data) < pos + 8
      THEN [err |-> "struct.error", segments |-> 0, flash_mode |-> 0,
            flash_size_freq |-> 0, entrypoint |-> 0]
      ELSE [err |-> IF RByte(data, pos) # expected_magic THEN "FatalError" ELSE "none",
            segments |-> RByte(data, pos + 1),
            flash_mode |-> RByte(data, pos + 2),
            flash_size_freq |-> RByte(data, pos + 3),
            entrypoint |-> UnpackU32(data, pos + 4)]

\* BaseFirmwareImage.load_segment, called n times from position pos with
\* the segments loaded before
RECURSIVE load_segments(_, _, _, _)
load_segments(data, pos, n, acc) ==
    IF n = 0 THEN [err |-> "none", segments |-> acc, pos |-> pos]
    ELSE LET before == load_segments(data, pos, n - 1, acc)
             offset == UnpackU32(data, before.pos)
             size == UnpackU32(data, before.pos + 4)
         IN  IF before.err # "none" THEN before
             ELSE IF RLen(data) < before.pos + 8
               THEN [before EXCEPT !.err = "struct.error"]
             ELSE IF RLen(data) - (before.pos + 8) < size
               THEN [before EXCEPT !.err = "FatalError"]
             ELSE [err |-> "none",
                   segments |-> Append(before.segments,
                                 ImageSegment(offset, RSlice(data, before.pos + 8, size),
                                              before.pos)),
                   pos |-> before.pos + 8 + size]

\* BaseFirmwareImage.read_checksum after the segments end at pos
read_checksum(data, pos) ==
    LET at == align_file_position(pos, 16)
    IN  IF at < RLen(data)
          THEN [err |-> "none", checksum |-> RByte(data, at), pos |-> at + 1]
          ELSE [err |-> "TypeError", checksum |-> 0, pos |-> at]

\* BaseFirmwareImage.verify
verify(segments) == IF Len(segments) > MAX_SEGMENTS THEN "FatalError" ELSE "none"

\* what a constructor returns once header, segments and checksum are read
Constructed(cls, hdr, segments, cs) ==
    IF verify(segments) # "none" THEN LoadError(verify(segments))
    ELSE [NotLoaded EXCEPT !.state = "ok", !.cls = cls, !.segments = segments,
                           !.entrypoint = hdr.entrypoint,
                           !.flash_mode = hdr.flash_mode,
                           !.flash_size_freq = hdr.flash_size_freq,
                           !.checksum = cs.checksum]

\* ESP8266ROMFirmwareImage.__init__(load_file)
LoadESP8266ROMFirmwareImage(file) ==
    LET hdr == load_common_header(file.data, 0, ESP_IMAGE_MAGIC)
        segs == load_segments(file.data, 8, hdr.segments, <<>>)
        cs == read_checksum(file.data, segs.pos)
    IN  IF hdr.err # "none" THEN LoadError(hdr.err)
        ELSE IF segs.err # "none" THEN LoadError(segs.err)
        ELSE IF cs.err # "none" THEN LoadError(cs.err)
        ELSE Constructed("ESP8266ROMFirmwareImage", hdr, segs.segments, cs)

\* ESP8266V2FirmwareImage.__init__(load_file)
LoadESP8266V2FirmwareImage(file) ==
    LET first == load_common_header(file.data, 0, IMAGE_V2_MAGIC)
        irom == load_segments(file.data, 8, 1, <<>>)
        irom_segment == [irom.segments[1] EXCEPT !.addr = 0,
                                                 !.include_in_checksum = FALSE]
        hdr == load_common_header(file.data, irom.pos, ESP_IMAGE_MAGIC)
        segs == load_segments(file.data, irom.pos + 8, hdr.segments, <<irom_segment>>)
        cs == read_checksum(file.data, segs.pos)
    IN  IF first.err # "none" THEN LoadError(first.err)
        ELSE IF irom.err # "none" THEN LoadError(irom.err)
        ELSE IF hdr.err # "none" THEN LoadError(hdr.err)
        ELSE IF segs.err # "none" THEN LoadError(segs.err)
        ELSE IF cs.err # "none" THEN LoadError(cs.err)
        ELSE Constructed("ESP8266V2FirmwareImage", hdr, segs.segments, cs)

\* ESP32FirmwareImage.load_extended_header: the append_digest byte
load_extended_header(data) ==
    IF RLen(data) < 24 THEN [err |-> "struct.error", append_digest |-> FALSE]
    ELSE IF RByte(data, 23) \notin {0, 1}
      THEN [err |-> "RuntimeError", append_digest |-> FALSE]
    ELSE [err |-> "none", append_digest |-> RByte(data, 23) = 1]

\* ESP32FirmwareImage.__init__(load_file), also for its subclasses
LoadESP32FirmwareImage(cls, file) ==
    LET hdr == load_common_header(file.data, 0, ESP_IMAGE_MAGIC)
        ext == load_extended_header(file.data)
        segs == load_segments(file.data, 24, hdr.segments, <<>>)
        cs == read_checksum(file.data, segs.pos)
        made == Constructed(cls, hdr, segs.segments, cs)
    IN  IF hdr.err # "none" THEN LoadError(hdr.err)
        ELSE IF ext.err # "none" THEN LoadError(ext.err)
        ELSE IF segs.err # "none" THEN LoadError(segs.err)
        ELSE IF cs.err # "none" THEN LoadError(cs.err)
        ELSE IF made.state # "ok" THEN made
        ELSE IF ext.append_digest
          THEN [made EXCEPT !.append_digest = TRUE,
                            !.stored_digest = file.tail,
                            !.calc_digest = <<sha256(RTake(file.data, cs.pos))>>]
          ELSE made

\* LoadFirmwareImage(chip, filename)
LoadFirmwareImage(chip, file) ==
    IF chip = "esp32" THEN LoadESP32FirmwareImage("ESP32FirmwareImage", file)
    ELSE IF chip = "esp32s2" THEN LoadESP32FirmwareImage("ESP32S2FirmwareImage", file)
    ELSE IF file.data = <<>> THEN LoadError("TypeError")
    ELSE IF RByte(file.data, 0) = ESP_IMAGE_MAGIC THEN LoadESP8266ROMFirmwareImage(file)
    ELSE IF RByte(file.data, 0) = IMAGE_V2_MAGIC THEN LoadESP8266V2FirmwareImage(file)
    ELSE LoadError("FatalError")

\* the chip argument that goes with an image class
ChipOf(cls) ==
    CASE cls = "ESP32FirmwareImage" -> "esp32"
      [] cls = "ESP32S2FirmwareImage" -> "esp32s2"
      [] OTHER -> "esp8266"

(***************************************************************************)
(* elf2image: the images it builds.  Segments are the ELF's sections after *)
(* merge_adjacent_segments; the data of a section is one byte repeated,    *)
(* padded with zero bytes to a multiple of 4 as ImageSegment does.         *)
(***************************************************************************)
Section(addr, b, n) == ImageSegment(addr, Run(b, n), NoOffs)

\* count sections of 4 bytes, 256 bytes apart, from addr upwards
SmallSections(addr, count) == [i \in 1..count |-> Section(addr + 256 * (i - 1), 17, 4)]

Reverse(s) == [i \in 1..Len(s) |-> s[Len(s) + 1 - i]]

\* ESP32: sections in DROM (0x3f400020), IROM (0x400d0018, 0x400e0020,
\* 0x400d8000, 0x400e0000) and none
Esp32FlashSections ==
    { <<>>,
      <<Section(1061158944, 161, 256)>>,
      <<Section(1074593816, 162, 512)>>,
      <<Section(1061158944, 161, 256), Section(1074593816, 162, 512)>>,
      <<Section(1061158944, 161, 65488), Section(1074659360, 162, 16)>>,
      <<Section(1061158944, 161, 65488), Section(1074659328, 162, 16)>>,
      <<Section(1074593816, 162, 16), Section(1074626560, 163, 16)>> }

\* ESP32: sections in DRAM (0x3ffb0000), IRAM (0x40080000), one that starts
\* 16 bytes below IROM_MAP_START (0x400cfff0), and runs of small ones
Esp32RamSections ==
    { <<>>,
      <<Section(1073414144, 177, 61)>>,
      <<Section(1073414144, 177, 61), Section(1074266112, 178, 128)>>,
      <<Section(1074266112, 178, 128), Section(1073414144, 177, 61)>>,
      <<Section(1074593776, 179, 64)>> }
    \cup { SmallSections(1073414144, n) : n \in (MAX_SEGMENTS - 1)..(MAX_SEGMENTS + MaxExtraSections) }

\* ESP32-S2: DROM 0x3f000020, IROM 0x40080018, DRAM 0x3ffc0000
Esp32S2Sections ==
    { <<Section(1056964640, 161, 256), Section(1073479680, 177, 64),
        Section(1074266136, 162, 512)>>,
      <<Section(1073479680, 177, 64)>> }

\* ESP8266: irom0 (0x40210000, 0x40220000), dram (0x3ffe8000), iram (0x40100000)
Esp8266IromSections ==
    { <<>>,
      <<Section(1075904512, 162, 48)>>,
      <<Section(1075904512, 162, 39)>>,
      <<Section(1075904512, 162, 48), Section(1075970048, 163, 16)>> }

Esp8266RamSections ==
    { <<>>,
      <<Section(1073643520, 177, 13)>>,
      <<Section(1074790400, 0, 8)>>,
      <<Section(1074790400, 178, 32), Section(1073643520, 177, 13)>> }
    \cup { SmallSections(1073643520, n) : n \in MAX_SEGMENTS..(MAX_SEGMENTS + MaxExtraSections) }

\* entry point, flash mode and flash size/frequency byte (lines 3383-3390)
Headers ==
    { [entrypoint |-> 1074266112, flash_mode |-> 2, flash_size_freq |-> 32],
      [entrypoint |-> 1074790400, flash_mode |-> 2, flash_size_freq |-> 32],
      [entrypoint |-> 1074790404, flash_mode |-> 0, flash_size_freq |-> 79] }

NewImage(cls, segments, h, digest) ==
    [cls |-> cls, segments |-> segments, entrypoint |-> h.entrypoint,
     flash_mode |-> h.flash_mode, flash_size_freq |-> h.flash_size_freq,
     append_digest |-> digest]

Images ==
    { NewImage("ESP32FirmwareImage", s, h, d) :
        s \in { a \o b : a \in Esp32FlashSections, b \in Esp32RamSections }
              \cup { b \o a : a \in Esp32FlashSections, b \in Esp32RamSections },
        h \in Headers, d \in BOOLEAN }
    \cup { NewImage("ESP32S2FirmwareImage", s, h, TRUE) :
        s \in Esp32S2Sections, h \in Headers }
    \cup { NewImage(cls, s, h, FALSE) :
        cls \in {"ESP8266ROMFirmwareImage", "ESP8266V2FirmwareImage"},
        s \in { a \o b : a \in Esp8266IromSections, b \in Esp8266RamSections }
              \cup { b \o a : a \in Esp8266IromSections, b \in Esp8266RamSections },
        h \in Headers }

NoSave ==
    [flash_segments |-> <<>>, ram_segments |-> <<>>, checksum |-> ESP_CHECKSUM_MAGIC,
     total_segments |-> 0, error |-> "none", altered |-> "none"]

ImgInit ==
    /\ img_pc = "verify"
    /\ image \in Images
    /\ f = NoFile
    /\ sv = NoSave
    /\ loaded = NotLoaded

SaveRaise(e) ==
    /\ img_pc' = "raised"
    /\ sv' = [sv EXCEPT !.error = e]

\* elf2image, line 3402: image.verify()
ImageVerify ==
    /\ img_pc = "verify"
    /\ IF verify(image.segments) # "none"
         THEN SaveRaise(verify(image.segments))
         ELSE img_pc' = "save" /\ UNCHANGED sv
    /\ UNCHANGED <<image, f, loaded>>
    /\ UNCHANGED notImg

\* ESP8266ROMFirmwareImage.save
SaveV1 ==
    /\ img_pc = "save"
    /\ image.cls = "ESP8266ROMFirmwareImage"
    /\ IF Len(irom_segments(image)) > 1
         THEN SaveRaise("FatalError") /\ UNCHANGED f
         ELSE LET normal_segments == get_non_irom_segments(image)
                  cs == saved_checksum(normal_segments, ESP_CHECKSUM_MAGIC)
              IN  /\ f' = [data |-> append_checksum(
                                       save_segments(
                                           write_common_header(<<>>, image, normal_segments),
                                           normal_segments),
                                       cs),
                           tail |-> <<>>,
                           irom |-> IF irom_segments(image) = <<>> THEN <<>>
                                    ELSE irom_segments(image)[1].data]
                  /\ sv' = sv
                  /\ img_pc' = "saved"
    /\ UNCHANGED <<image, loaded>>
    /\ UNCHANGED notImg

\* ESP8266V2FirmwareImage.save
SaveV2 ==
    /\ img_pc = "save"
    /\ image.cls = "ESP8266V2FirmwareImage"
    /\ IF Len(irom_segments(image)) > 1
         THEN SaveRaise("FatalError") /\ UNCHANGED f
         ELSE LET first == PackHeader(IMAGE_V2_MAGIC, IMAGE_V2_SEGMENT, image)
                  irom_segment ==
                      [ImageSegment(0, irom_segments(image)[1].data, 0)
                          EXCEPT !.data = pad_to(@, 16, 0)]
                  with_irom == IF irom_segments(image) = <<>> THEN first
                               ELSE save_segment(first, irom_segment)
                  normal_segments == get_non_irom_segments(image)
                  cs == saved_checksum(normal_segments, ESP_CHECKSUM_MAGIC)
                  body == append_checksum(
                              save_segments(
                                  write_common_header(with_irom, image, normal_segments),
                                  normal_segments),
                              cs)
              IN  /\ f' = [data |-> body, tail |-> <<esp8266_crc32(body)>>, irom |-> <<>>]
                  /\ sv' = sv
                  /\ img_pc' = "saved"
    /\ UNCHANGED <<image, loaded>>
    /\ UNCHANGED notImg

\* ESP32FirmwareImage.save, lines 2515-2539: the headers, the two sorted
\* lists, and the check for two segments in one 64KB mapping
SaveBegin ==
    /\ img_pc = "save"
    /\ image.cls \in Esp32Images
    /\ LET flash_segments == SelectSeq(SortedByAddr(image.segments),
                                       LAMBDA s : is_flash_addr(image.cls, s.addr))
           ram_segments == SelectSeq(SortedByAddr(image.segments),
                                     LAMBDA s : ~is_flash_addr(image.cls, s.addr))
       IN  /\ f' = [f EXCEPT !.data =
                       save_extended_header(
                           write_common_header(<<>>, image, image.segments), image)]
           /\ IF \E i \in 2..Len(flash_segments) :
                    flash_segments[i].addr \div IROM_ALIGN
                        = flash_segments[i - 1].addr \div IROM_ALIGN
                THEN SaveRaise("FatalError")
                ELSE /\ sv' = [sv EXCEPT !.flash_segments = flash_segments,
                                         !.ram_segments = ram_segments]
                     /\ img_pc' = "segments"
    /\ UNCHANGED <<image, loaded>>
    /\ UNCHANGED notImg

\* lines 2560-2577: one pass of the while loop
SaveFlashStep ==
    /\ img_pc = "segments"
    /\ sv.flash_segments # <<>>
    /\ LET tell == RLen(f.data)
           segment == Head(sv.flash_segments)
           pad_len == get_alignment_data_needed(tell, segment)
           split == split_image(Head(sv.ram_segments), pad_len)
           from_ram == sv.ram_segments # <<>> /\ pad_len > SEG_HEADER_LEN
           pad_segment == IF from_ram THEN split.result
                          ELSE ImageSegment(0, Run(0, pad_len), tell)
           written == flash_segment_padded(tell, segment)
       IN  IF pad_len > 0
             THEN /\ f' = [f EXCEPT !.data = save_segment(@, pad_segment)]
                  /\ sv' = [sv EXCEPT
                        !.ram_segments =
                            IF ~from_ram THEN @
                            ELSE IF split.self.data = <<>> THEN Tail(@)
                            ELSE <<split.self>> \o Tail(@),
                        !.checksum = checksum(pad_segment.data, @),
                        !.total_segments = @ + 1]
                  /\ img_pc' = "segments"
             ELSE IF (tell + 8) % IROM_ALIGN # segment.addr % IROM_ALIGN
               THEN SaveRaise("AssertionError") /\ UNCHANGED f
               ELSE /\ f' = [f EXCEPT !.data = save_segment(@, written)]
                    /\ sv' = [sv EXCEPT !.flash_segments = Tail(@),
                                        !.checksum = checksum(written.data, @),
                                        !.total_segments = @ + 1]
                    /\ img_pc' = "segments"
    /\ UNCHANGED <<image, loaded>>
    /\ UNCHANGED notImg

\* lines 2579-2627, with secure_pad unset: the remaining RAM segments, the
\* checksum, the segment count written back into the header, the digest
SaveFinish ==
    /\ img_pc = "segments"
    /\ sv.flash_segments = <<>>
    /\ LET cs == saved_checksum(sv.ram_segments, sv.checksum)
           total_segments == sv.total_segments + Len(sv.ram_segments)
           body == append_checksum(save_segments(f.data, sv.ram_segments), cs)
           counted == RSetByte(body, 1, total_segments)
       IN  /\ f' = [f EXCEPT !.data = counted,
                             !.tail = IF image.append_digest
                                        THEN <<sha256(counted)>> ELSE <<>>]
           /\ sv' = [sv EXCEPT !.ram_segments = <<>>,
                               !.checksum = cs,
                               !.total_segments = total_segments]
    /\ img_pc' = "saved"
    /\ UNCHANGED <<image, loaded>>
    /\ UNCHANGED notImg

(***************************************************************************)
(* Between save and load the file may be altered: the first byte, the     *)
(* checksum byte, or the appended digest.                                  *)
(***************************************************************************)
Alterations == {"none", "magic", "checksum", "digest"}

Altered(file, how) ==
    CASE how = "magic" -> [file EXCEPT !.data = RSetByte(@, 0, 0)]
      [] how = "checksum" ->
            [file EXCEPT !.data =
                RSetByte(@, RLen(@) - 1, (RByte(@, RLen(@) - 1) + 1) % 256)]
      [] how = "digest" -> [file EXCEPT !.tail = <<sha256(<<>>)>>]
      [] OTHER -> file

StoreFile ==
    /\ img_pc = "saved"
    /\ \E how \in Alterations :
          /\ how = "digest" => f.tail # <<>> /\ image.cls \in Esp32Images
          /\ f' = Altered(f, how)
          /\ sv' = [sv EXCEPT !.altered = how]
    /\ img_pc' = "load"
    /\ UNCHANGED <<image, loaded>>
    /\ UNCHANGED notImg

\* LoadFirmwareImage(chip, filename) on the stored file
Load ==
    /\ img_pc = "load"
    /\ loaded' = LoadFirmwareImage(ChipOf(image.cls), f)
    /\ img_pc' = "loaded"
    /\ UNCHANGED <<image, f, sv>>
    /\ UNCHANGED notImg

(***************************************************************************)
(* Erase sizing: get_erase_size of the loader classes                      *)
(***************************************************************************)
FLASH_SECTOR_SIZE == 4096

sectors_per_block == 16

num_sectors(size) == (size + FLASH_SECTOR_SIZE - 1) \div FLASH_SECTOR_SIZE

start_sector(offset) == offset \div FLASH_SECTOR_SIZE

\* head_sectors after the "if num_sectors < head_sectors" adjustment
head_sectors(offset, size) ==
    LET head == sectors_per_block - (start_sector(offset) % sectors_per_block)
    IN IF num_sectors(size) < head THEN num_sectors(size) ELSE head

\* the same computation with the half-round branch left out
Esp8266RomEraseSizeNoHalf(offset, size) ==
    (num_sectors(size) - head_sectors(offset, size)) * FLASH_SECTOR_SIZE

\* ESP8266ROM.get_erase_size
Esp8266RomEraseSize(offset, size) ==
    IF num_sectors(size) < 2 * head_sectors(offset, size)
    THEN ((num_sectors(size) + 1) \div 2) * FLASH_SECTOR_SIZE
    ELSE (num_sectors(size) - head_sectors(offset, size)) * FLASH_SECTOR_SIZE

\* the class bodies without ESP8266StubLoader's own get_erase_size
OwnGetEraseSizeNoStubOverride(cls) ==
    CASE cls = "ESP8266ROM" -> "workaround"
      [] cls = "ESP32ROM" -> "size"
      [] OTHER -> "unset"

\* which class bodies define get_erase_size, and which of the two bodies
OwnGetEraseSize(cls) ==
    CASE cls = "ESP8266ROM" -> "workaround"
      [] cls \in {"ESP8266StubLoader", "ESP32ROM"} -> "size"
      [] OTHER -> "unset"

\* method lookup along the base classes, then the body found
RECURSIVE get_erase_size(_, _, _)
get_erase_size(cls, offset, size) ==
    CASE OwnGetEraseSize(cls) = "workaround" -> Esp8266RomEraseSize(offset, size)
      [] OwnGetEraseSize(cls) = "size" -> size
      [] OTHER -> get_erase_size(Parent(cls), offset, size)

\* the arguments drawn: every start sector of the first erase block and the
\* first of the next, one byte around each sector boundary for the size
EraseOffsets == {s * FLASH_SECTOR_SIZE + d : s \in 0..MaxStartSector, d \in {0, 256}}

EraseSizes == {n * FLASH_SECTOR_SIZE + d : n \in 0..(MaxNumSectors - 1), d \in {0, 1, FLASH_SECTOR_SIZE - 1}}
                  \cup {MaxNumSectors * FLASH_SECTOR_SIZE}

EraseInit ==
    /\ er_pc = "call"
    /\ er_cls \in RomClasses \cup StubClasses
    /\ er_offset \in EraseOffsets
    /\ er_size \in EraseSizes
    /\ er_result = 0

GetEraseSize ==
    /\ er_pc = "call"
    /\ er_result' = get_erase_size(er_cls, er_offset, er_size)
    /\ er_pc' = "done"
    /\ UNCHANGED <<er_cls, er_offset, er_size>>
    /\ UNCHANGED notErase

(***************************************************************************)
(* One method call on a loader object: command(), check_command() and the  *)
(* methods behind check_supported_function.  Timeouts are in milliseconds. *)
(***************************************************************************)
DEFAULT_TIMEOUT == 3000
CHIP_ERASE_TIMEOUT == 120000
MAX_TIMEOUT == CHIP_ERASE_TIMEOUT * 2
SYNC_TIMEOUT == 100
MD5_TIMEOUT_PER_MB == 8
ERASE_REGION_TIMEOUT_PER_MB == 30
MEM_END_ROM_TIMEOUT == 50
ESP_ROM_BAUD == 115200

\* port.timeout of a port opened by serial_for_url: None, reads block
NoTimeout == -1

\* range(100) of the response loop
RESPONSE_TRIES == 100

\* timeout_per_mb: seconds_per_mb * (size_bytes / 1e6) seconds
timeout_per_mb(seconds_per_mb, size_bytes) ==
    LET result == (seconds_per_mb * size_bytes) \div 1000
    IN IF result < DEFAULT_TIMEOUT THEN DEFAULT_TIMEOUT ELSE result

\* FLASH_WRITE_SIZE: 0x400 in ESPLoader, 0x4000 in every stub loader class
FLASH_WRITE_SIZE(cls) == IF cls \in StubClasses THEN 16384 ELSE 1024

\* the methods decorated with stub_function_only
StubFunctionOnly == {"erase_flash", "erase_region"}

\* the methods decorated with stub_and_esp32_function_only
StubAndEsp32FunctionOnly ==
    {"flash_defl_begin", "flash_defl_block", "flash_defl_finish", "flash_md5sum",
     "change_baud"}

\* the decorators applied to nothing: every call goes through
check_func_open(cls, name) == TRUE

\* check_supported_function: check_func(obj) of the decorator on the method
check_func(cls, name) ==
    CASE name \in StubFunctionOnly -> IS_STUB(cls)
      [] name \in StubAndEsp32FunctionOnly -> StubOrEsp32(cls)
      [] OTHER -> TRUE

\* which class bodies define read_flash_slow
RECURSIVE read_flash_slow(_)
read_flash_slow(cls) ==
    CASE cls = "ESPLoader" -> "raise"
      [] cls = "ESP32ROM" -> "READ_FLASH_SLOW"
      [] OTHER -> read_flash_slow(Parent(cls))

\* STUB_CODE, lines 4089-4298: load addresses, entry point and lengths of
\* the text and data of the stub of each chip; stub loader classes inherit
\* it from their ROM class
StubCode(text_start, text_len, data_start, data_len, entry) ==
    [text_start |-> text_start, text_len |-> text_len, data_start |-> data_start,
     data_len |-> data_len, entry |-> entry]

RECURSIVE STUB_CODE(_)
STUB_CODE(cls) ==
    CASE cls = "ESP8266ROM" -> StubCode(1074847744, 8200, 1073720488, 768, 1074847748)
      [] cls = "ESP32ROM" -> StubCode(1074520064, 3412, 1073605544, 4, 1074521496)
      [] cls = "ESP32S2ROM" -> StubCode(1073905664, 4068, 1073622004, 4, 1073907516)
      [] cls = "ESP32S3BETA2ROM" -> StubCode(1077379072, 3436, 1070279592, 4, 1077380516)
      [] cls = "ESP32C3ROM" -> StubCode(1077411840, 3392, 1070164904, 4, 1077413320)
      [] OTHER -> STUB_CODE(Parent(cls))

\* the (start, end) pairs mem_begin walks: data, then text
StubRanges(cls) ==
    LET stub == STUB_CODE(cls)
    IN <<<<stub.data_start, stub.data_start + stub.data_len>>,
         <<stub.text_start, stub.text_start + stub.text_len>>>>

\* a check that looks at the data of the stub only
MemBeginOverlapsDataOnly(cls, size, offset) ==
    LET load_start == offset
        load_end == offset + size
        r == StubRanges(cls)[1]
    IN load_start < r[2] /\ load_end > r[1]

\* mem_begin, lines 653-658: load_start < end and load_end > start for the
\* data or the text of the stub
MemBeginOverlaps(cls, size, offset) ==
    LET load_start == offset
        load_end == offset + size
    IN \E i \in 1..2 : LET r == StubRanges(cls)[i]
                       IN load_start < r[2] /\ load_end > r[1]
\* a method call: name, the arguments of command()/check_command when called
\* directly, and two integer arguments x, y of the other methods
MethodCall(name, op, wait, timeout, x, y) ==
    [name |-> name, op |-> op, wait |-> wait, timeout |-> timeout, x |-> x, y |-> y]

Gated(name, x, y) == MethodCall(name, "", TRUE, DEFAULT_TIMEOUT, x, y)

\* mem_begin(size, blocks, blocksize, offset) as (size, offset), around the
\* data (0x3ffe1328, 4 bytes) and the text of the ESP32 stub
MemBeginCalls ==
    { <<1, 1073605543>>, <<4, 1073605543>>, <<0, 1073605546>>, <<1, 1073605546>>,
      <<1, 1073605548>>, <<1, 1074523475>> }

Methods ==
    { MethodCall("command", "SYNC", TRUE, SYNC_TIMEOUT, 0, 0),
      MethodCall("command", "None", TRUE, DEFAULT_TIMEOUT, 0, 0),
      MethodCall("command", "MEM_END", TRUE, MEM_END_ROM_TIMEOUT, 0, 0),
      MethodCall("command", "RUN_USER_CODE", FALSE, DEFAULT_TIMEOUT, 0, 0),
      MethodCall("command", "None", FALSE, DEFAULT_TIMEOUT, 0, 0) }
    \cup { MethodCall("check_command", "FLASH_BEGIN", TRUE, t, 0, 0) :
             t \in {DEFAULT_TIMEOUT, CHIP_ERASE_TIMEOUT,
                    timeout_per_mb(ERASE_REGION_TIMEOUT_PER_MB, 16777216)} }
    \cup { Gated("erase_flash", 0, 0) }
    \cup { Gated("erase_region", offset, size) :
             offset \in {0, 100}, size \in {4095, 4096, 16777216} }
    \cup { Gated("read_flash", 0, length) : length \in {0, 2} }
    \cup { Gated("flash_defl_begin", size, 0) : size \in {4096, 16777216} }
    \cup { Gated("flash_defl_block", 0, 0) }
    \cup { Gated("flash_defl_finish", reboot, 0) : reboot \in {0, 1} }
    \cup { Gated("flash_md5sum", 0, size) : size \in {4096, 16777216 * 4} }
    \cup { Gated("change_baud", baud, 0) : baud \in {921600} }
    \cup { Gated("mem_begin", c[1], c[2]) : c \in MemBeginCalls }

\* what a method does up to its call of command(): raise, return, or call
\* command(op, timeout=timeout, wait_response=wait), through check_command
\* when check is true
Plan(kind, err, op, wait, timeout, check) ==
    [kind |-> kind, err |-> err, op |-> op, wait |-> wait, timeout |-> timeout,
     check |-> check]

PlanRaise(err) == Plan("raise", err, "", TRUE, 0, FALSE)
PlanReturn == Plan("return", "", "", TRUE, 0, FALSE)
PlanCheck(op, timeout) == Plan("command", "", op, TRUE, timeout, TRUE)

\* a flash_defl_finish that sends the request whatever the loader
FlashDeflFinishAlways(cls, reboot) == PlanCheck("FLASH_DEFL_END", DEFAULT_TIMEOUT)

\* flash_defl_finish, lines 830-835: reboot is 0 for False, 1 for True
FlashDeflFinishPlan(cls, reboot) ==
    IF reboot = 0 /\ ~IS_STUB(cls) THEN PlanReturn
    ELSE PlanCheck("FLASH_DEFL_END", DEFAULT_TIMEOUT)

MethodPlan(cls, c) ==
    IF ~check_func(cls, c.name) THEN PlanRaise("NotImplementedInROMError")
    ELSE CASE c.name = "command" -> Plan("command", "", c.op, c.wait, c.timeout, FALSE)
           [] c.name = "check_command" -> PlanCheck(c.op, c.timeout)
           [] c.name = "erase_flash" -> PlanCheck("ERASE_FLASH", CHIP_ERASE_TIMEOUT)
           [] c.name = "erase_region" ->
                IF c.x % FLASH_SECTOR_SIZE # 0 \/ c.y % FLASH_SECTOR_SIZE # 0
                  THEN PlanRaise("FatalError")
                  ELSE PlanCheck("ERASE_REGION",
                                 timeout_per_mb(ERASE_REGION_TIMEOUT_PER_MB, c.y))
           [] c.name = "read_flash" ->
                IF ~IS_STUB(cls)
                  THEN IF read_flash_slow(cls) = "raise"
                         THEN PlanRaise("NotImplementedInROMError")
                       ELSE IF c.y = 0 THEN PlanReturn
                       ELSE PlanCheck("READ_FLASH_SLOW", DEFAULT_TIMEOUT)
                  ELSE PlanCheck("READ_FLASH", DEFAULT_TIMEOUT)
           [] c.name = "flash_defl_begin" ->
                PlanCheck("FLASH_DEFL_BEGIN",
                          IF IS_STUB(cls) THEN DEFAULT_TIMEOUT
                          ELSE timeout_per_mb(
                                   ERASE_REGION_TIMEOUT_PER_MB,
                                   ((c.x + FLASH_WRITE_SIZE(cls) - 1) \div FLASH_WRITE_SIZE(cls))
                                       * FLASH_WRITE_SIZE(cls)))
           [] c.name = "flash_defl_block" -> PlanCheck("FLASH_DEFL_DATA", DEFAULT_TIMEOUT)
           [] c.name = "flash_defl_finish" -> FlashDeflFinishPlan(cls, c.x)
           [] c.name = "flash_md5sum" ->
                PlanCheck("SPI_FLASH_MD5", timeout_per_mb(MD5_TIMEOUT_PER_MB, c.y))
           [] c.name = "change_baud" ->
                Plan("command", "", "CHANGE_BAUDRATE", TRUE, DEFAULT_TIMEOUT, FALSE)
           [] c.name = "mem_begin" ->
                IF IS_STUB(cls) /\ MemBeginOverlaps(cls, c.x, c.y)
                  THEN PlanRaise("FatalError")
                  ELSE PlanCheck("MEM_BEGIN", DEFAULT_TIMEOUT)

\* how a call ends: kind is "return" or the class of the exception raised
Out(kind, msg, val, data) == [kind |-> kind, msg |-> msg, val |-> val, data |-> data]

Running == Out("running", "", Zero, <<>>)
ReturnNone == Out("return", "None", Zero, <<>>)

\* what read() gives: the read times out (slip_reader raises FatalError), or
\* a packet shorter than 8 bytes, or one whose first byte is not 1, or a
\* response: op_ret equal to the op awaited or not, value and body
Pkt(kind, match, val, data) == [kind |-> kind, match |-> match, val |-> val, data |-> data]

Bodies ==
    { <<>>, <<0>>, <<1>>, <<0, 0>>, <<0, 5>>, <<1, 5>>, <<1, 6>>, <<9, 0, 0>>,
      <<0, 0, 0, 0>>, <<1, 5, 0, 0>>, <<9, 1, 6>>, <<9, 0, 0, 0, 0>>,
      Md5Digest(1) \o <<0, 0>>, HexDigest(1) \o <<0, 0, 0, 0>> }

Packets ==
    { Pkt(k, FALSE, Zero, <<>>) : k \in {"timeout", "short", "request"} }
    \cup { Pkt("response", FALSE, Zero, d) : d \in Bodies }
    \cup { Pkt("response", TRUE, Zero, d) : d \in Bodies }
    \cup { Pkt("response", TRUE, <<1, 2>>, d) : d \in {<<>>, <<0, 0>>, <<0, 0, 0, 0>>} }

Continue == Out("continue", "", Zero, <<>>)

\* byte(bitstr, index) raises IndexError past the end of bitstr
ByteRaises(bitstr, index) == index >= Len(bitstr)

\* a packet that is not a response ends the call
NotAResponseFails(p) == Out("FatalError", "not a response", Zero, <<>>)

\* "if len(p) < 8: continue" and "if resp != 1: continue"
NotAResponse(p) == Continue

\* one pass of the response loop of command() on the packet p read
CommandStep(op, p) ==
    IF p.kind = "timeout" THEN Out("FatalError", "Timed out waiting for packet", Zero, <<>>)
    ELSE IF p.kind \in {"short", "request"} THEN NotAResponse(p)
    ELSE IF op = "None" \/ p.match THEN Out("return", "val, data", p.val, p.data)
    ELSE IF ByteRaises(p.data, 0) THEN Out("IndexError", "", Zero, <<>>)
    ELSE IF p.data[1] = 0 THEN Continue
    ELSE IF ByteRaises(p.data, 1) THEN Out("IndexError", "", Zero, <<>>)
    ELSE IF p.data[2] = ROM_INVALID_RECV_MSG
      THEN Out("UnsupportedCommandError", "", Zero, <<>>)
    ELSE Continue

\* check_command on the val, data that command() returned, with the status
\* check never failing
check_command_unchecked(cls, val, data) ==
    IF Len(data) > STATUS_BYTES_LENGTH(cls)
      THEN Out("return", "data", Zero, SubSeq(data, 1, Len(data) - STATUS_BYTES_LENGTH(cls)))
      ELSE Out("return", "val", val, <<>>)

\* check_command on the val, data that command() returned
check_command(cls, val, data) ==
    LET n == STATUS_BYTES_LENGTH(cls)
        status_bytes == SubSeq(data, Len(data) - n + 1, Len(data))
    IN IF Len(data) < n
         THEN Out("FatalError", "Only got byte status response", Zero, <<>>)
       ELSE IF status_bytes[1] # 0
         THEN Out("FatalError", "WithResult", Zero, status_bytes)
       ELSE IF Len(data) > n
         THEN Out("return", "data", Zero, SubSeq(data, 1, Len(data) - n))
       ELSE Out("return", "val", val, <<>>)

\* the rest of a method once command() has returned val, data: the outcome,
\* and whether the method goes on to read data packets (stub read_flash)
AfterCommand(cls, c, plan, val, data) ==
    LET cc == IF plan.check THEN check_command(cls, val, data)
              ELSE Out("return", "val, data", val, data)
    IN IF cc.kind # "return" THEN cc
       ELSE CASE c.name \in {"command", "check_command"} -> cc
              [] c.name = "flash_md5sum" ->
                   IF cc.msg = "val" THEN Out("TypeError", "len(res)", Zero, <<>>)
                   ELSE IF Len(cc.data) = 32 THEN Out("return", "res", Zero, cc.data)
                   ELSE IF Len(cc.data) = 16
                     THEN Out("return", "res", Zero, Lower(hexify(cc.data, TRUE)))
                   ELSE Out("FatalError", "MD5Sum command returned unexpected result",
                            Zero, <<>>)
              [] c.name = "read_flash" /\ plan.op = "READ_FLASH_SLOW" ->
                   IF cc.msg = "val" THEN Out("TypeError", "len(r)", Zero, <<>>)
                   ELSE IF Len(cc.data) < c.y
                     THEN Out("FatalError", "Expected byte block", Zero, <<>>)
                   ELSE Out("return", "data", Zero, SubSeq(cc.data, 1, c.y))
              [] c.name = "read_flash" /\ plan.op = "READ_FLASH" -> Running
              [] OTHER -> ReturnNone

Min(a, b) == IF a <= b THEN a ELSE b

NothingReturned == [got |-> FALSE, val |-> Zero, data |-> <<>>]

ReturnedToCaller(val, data) == [got |-> TRUE, val |-> val, data |-> data]

\* the locals of command(): the plan it was called with, saved_timeout,
\* new_timeout and retry, the index of the response loop
NoCmd ==
    [active |-> FALSE, plan |-> PlanReturn, saved_timeout |-> NoTimeout,
     new_timeout |-> NoTimeout, retry |-> 0]

Loader(cls, timeout) ==
    [cls |-> cls, timeout |-> timeout, baudrate |-> ESP_ROM_BAUD,
     secure_download_mode |-> FALSE, in_bootloader |-> "unset"]

LoaderInit ==
    /\ ld_pc = "ready"
    /\ ld_self \in { Loader(cls, t) : cls \in RomClasses \cup StubClasses,
                                      t \in {NoTimeout, DEFAULT_TIMEOUT, MAX_TIMEOUT} }
    /\ ld_before = ld_self
    /\ ld_call \in Methods
    /\ ld_cmd = NoCmd
    /\ ld_written = <<>>
    /\ ld_flushed = 0
    /\ ld_reply = NothingReturned
    /\ ld_data = 0
    /\ ld_result = Running

\* the finally clause of command() left out
RestoreTimeoutSkipped(obj, c) == obj

\* the finally clause of command(): the port timeout is set back
RestoreTimeout(obj, c) == [obj EXCEPT !.timeout = c.saved_timeout]

\* the call ends: the frame of command() is gone
Done(obj, out) ==
    /\ ld_pc' = "done"
    /\ ld_self' = obj
    /\ ld_cmd' = NoCmd
    /\ ld_result' = out

\* the assignments of a method after its command returned
MethodEffects(obj, c) ==
    CASE c.name = "change_baud" -> [obj EXCEPT !.baudrate = c.x]
      [] c.name = "flash_defl_finish" -> [obj EXCEPT !.in_bootloader = "False"]
      [] OTHER -> obj

\* the method is entered: the decorator's test, the method's own checks, then
\* command() up to its first read
Invoke ==
    /\ ld_pc = "ready"
    /\ LET plan == MethodPlan(ld_self.cls, ld_call)
       IN CASE plan.kind = "raise" ->
                 /\ Done(ld_self, Out(plan.err, "", Zero, <<>>))
                 /\ UNCHANGED ld_written
            [] plan.kind = "return" ->
                 /\ Done(ld_self, ReturnNone)
                 /\ UNCHANGED ld_written
            [] OTHER ->
                 LET c == [active |-> TRUE, plan |-> plan,
                           saved_timeout |-> ld_self.timeout,
                           new_timeout |-> Min(plan.timeout, MAX_TIMEOUT), retry |-> 0]
                 IN /\ ld_written' = IF plan.op # "None" THEN Append(ld_written, plan.op)
                                     ELSE ld_written
                    /\ IF ~plan.wait
                         THEN Done(RestoreTimeout([ld_self EXCEPT !.timeout = c.new_timeout], c),
                                   ReturnNone)
                         ELSE /\ ld_pc' = "reading"
                              /\ ld_self' = [ld_self EXCEPT !.timeout = c.new_timeout]
                              /\ ld_cmd' = c
                              /\ UNCHANGED ld_result
    /\ UNCHANGED <<ld_before, ld_call, ld_flushed, ld_reply, ld_data>>
    /\ UNCHANGED notLoader

\* command(), one pass of "for retry in range(100)", and what follows in the
\* caller when the pass returns or raises
ReadPacket ==
    /\ ld_pc = "reading"
    /\ \E p \in Packets :
         LET s == CommandStep(ld_cmd.plan.op, p)
             restored == RestoreTimeout(ld_self, ld_cmd)
         IN CASE s.kind = "continue" ->
                   /\ IF ld_cmd.retry + 1 < RESPONSE_TRIES
                        THEN /\ ld_cmd' = [ld_cmd EXCEPT !.retry = @ + 1]
                             /\ UNCHANGED <<ld_pc, ld_self, ld_result>>
                        ELSE Done(restored,
                                  Out("FatalError", "Response doesn't match request",
                                      Zero, <<>>))
                   /\ UNCHANGED <<ld_flushed, ld_reply>>
              [] s.kind = "return" ->
                   /\ ld_reply' = ReturnedToCaller(s.val, s.data)
                   /\ LET r == AfterCommand(ld_self.cls, ld_call, ld_cmd.plan, s.val, s.data)
                      IN IF r.kind = "running"
                           THEN /\ ld_pc' = IF ld_data < ld_call.y THEN "data" ELSE "digest"
                                /\ ld_self' = restored
                                /\ ld_cmd' = NoCmd
                                /\ UNCHANGED <<ld_result, ld_flushed>>
                         ELSE IF r.kind = "return"
                           THEN /\ Done(MethodEffects(restored, ld_call), r)
                                /\ ld_flushed' = IF ld_call.name = "change_baud"
                                                   THEN ld_flushed + 1 ELSE ld_flushed
                         ELSE Done(restored, r) /\ UNCHANGED ld_flushed
              [] s.kind = "UnsupportedCommandError" ->
                   /\ Done(restored, s)
                   /\ ld_flushed' = ld_flushed + 1
                   /\ UNCHANGED ld_reply
              [] OTHER ->
                   /\ Done(restored, s)
                   /\ UNCHANGED <<ld_flushed, ld_reply>>
    /\ UNCHANGED <<ld_before, ld_call, ld_written, ld_data>>
    /\ UNCHANGED notLoader

\* read_flash of a stub loader, one pass of "while len(data) < length": a
\* packet of n bytes is read, or the read times out
ReadData ==
    /\ ld_pc = "data"
    /\ \E n \in -1..(ld_call.y + 1) :
         IF n = -1
           THEN /\ Done(ld_self, Out("FatalError", "Timed out waiting for packet", Zero, <<>>))
                /\ UNCHANGED <<ld_data, ld_written>>
         ELSE IF ld_data + n < ld_call.y /\ n < FLASH_SECTOR_SIZE
           THEN /\ Done(ld_self, Out("FatalError", "Corrupt data", Zero, <<>>))
                /\ ld_data' = ld_data + n
                /\ UNCHANGED ld_written
         ELSE /\ ld_data' = ld_data + n
              /\ ld_written' = Append(ld_written, "len(data)")
              /\ IF ld_data + n < ld_call.y
                   THEN UNCHANGED <<ld_pc, ld_self, ld_cmd, ld_result>>
                 ELSE IF ld_data + n > ld_call.y
                   THEN Done(ld_self, Out("FatalError", "Read more than expected", Zero, <<>>))
                 ELSE /\ ld_pc' = "digest"
                      /\ UNCHANGED <<ld_self, ld_cmd, ld_result>>
    /\ UNCHANGED <<ld_before, ld_call, ld_flushed, ld_reply>>
    /\ UNCHANGED notLoader

\* read_flash of a stub loader: the digest frame is read and compared
ReadDigest ==
    /\ ld_pc = "digest"
    /\ \E frame \in {"timeout", "not 16 bytes", "other digest", "digest"} :
         Done(ld_self,
              CASE frame = "timeout" ->
                     Out("FatalError", "Timed out waiting for packet", Zero, <<>>)
                [] frame = "not 16 bytes" -> Out("FatalError", "Expected digest", Zero, <<>>)
                [] frame = "other digest" -> Out("FatalError", "Digest mismatch", Zero, <<>>)
                [] OTHER -> Out("return", "data", Zero, <<>>))
    /\ UNCHANGED <<ld_before, ld_call, ld_written, ld_flushed, ld_reply, ld_data>>
    /\ UNCHANGED notLoader

(***************************************************************************)
(* Uploads: run_stub and mem_finish, request by request                    *)
(***************************************************************************)
ESP_RAM_BLOCK == 6144
USB_RAM_BLOCK == 2048

\* the loader object: its class, sync_stub_detected, self.ESP_RAM_BLOCK and
\* the port timeout
Uploader(cls, detected, ram_block) ==
    [cls |-> cls, sync_stub_detected |-> detected, ESP_RAM_BLOCK |-> ram_block,
     timeout |-> DEFAULT_TIMEOUT]

\* stub[field] for field "text" or "data": a string of the length the class's
\* STUB_CODE has, its thirds filled with 1, 2 and 3
StubField(cls, field) ==
    LET n == IF field = "text" THEN STUB_CODE(cls).text_len ELSE STUB_CODE(cls).data_len
    IN RCat(RCat(Run(1, n \div 3), Run(2, n \div 3)), Run(3, n - 2 * (n \div 3)))

\* stub[field + "_start"]
StubFieldStart(cls, field) ==
    IF field = "text" THEN STUB_CODE(cls).text_start ELSE STUB_CODE(cls).data_start

\* a request written by command(op, data, chk, timeout=timeout): the words
\* packed in front of the data, the data, the checksum field, and the port
\* timeout while the response is read
UpReq(op, words, data, chk, timeout) ==
    [op |-> op, words |-> words, data |-> data, chk |-> chk,
     timeout |-> Min(timeout, MAX_TIMEOUT)]

\* mem_begin, lines 663-664
MemBeginRequest(size, blocks, blocksize, offset) ==
    UpReq("MEM_BEGIN", <<size, blocks, blocksize, offset>>, <<>>, 0, DEFAULT_TIMEOUT)

\* mem_block, lines 667-671
MemBlockRequest(data, seq) ==
    UpReq("MEM_DATA", <<RLen(data), seq, 0, 0>>, data,
          checksum(data, ESP_CHECKSUM_MAGIC), DEFAULT_TIMEOUT)

\* a mem_finish that reads the response with the default timeout
MemFinishRequestDefaultTimeout(cls, entrypoint) ==
    UpReq("MEM_END", <<IF entrypoint = 0 THEN 1 ELSE 0, entrypoint>>, <<>>, 0,
          DEFAULT_TIMEOUT)

\* mem_finish, lines 679-683
MemFinishRequest(cls, entrypoint) ==
    UpReq("MEM_END", <<IF entrypoint = 0 THEN 1 ELSE 0, entrypoint>>, <<>>, 0,
          IF IS_STUB(cls) THEN DEFAULT_TIMEOUT ELSE MEM_END_ROM_TIMEOUT)

\* a mem_finish that re-raises whatever check_command raised
MemFinishIgnoresNothing(cls, err) == FALSE

\* mem_finish, lines 684-687: except FatalError: if self.IS_STUB: raise
MemFinishIgnores(cls, err) == IsFatalError(err) /\ ~IS_STUB(cls)

\* run_stub, line 780: the blocks of a field
StubFieldBlocks(self, field) ==
    (RLen(StubField(self.cls, field)) + self.ESP_RAM_BLOCK - 1) \div self.ESP_RAM_BLOCK

\* run_stub, line 781: mem_begin(length, blocks, self.ESP_RAM_BLOCK, offs)
StubMemBegin(self, field) ==
    MemBeginRequest(RLen(StubField(self.cls, field)), StubFieldBlocks(self, field),
                    self.ESP_RAM_BLOCK, StubFieldStart(self.cls, field))

\* a block loop that sends every block as if it were the first
StubMemBlockFirstOnly(self, field, seq) ==
    MemBlockRequest(RSlice(StubField(self.cls, field), 0, self.ESP_RAM_BLOCK), 0)

\* run_stub, lines 783-785: mem_block(stub[field][from_offs:to_offs], seq)
StubMemBlock(self, field, seq) ==
    LET from_offs == seq * self.ESP_RAM_BLOCK
        to_offs == from_offs + self.ESP_RAM_BLOCK
    IN MemBlockRequest(RSlice(StubField(self.cls, field), from_offs, to_offs - from_offs),
                       seq)

\* what the port gives while check_command waits for the response: nothing
\* before the timeout, a byte that breaks the framing, 100 packets of which
\* none answers the request, the refusal of a ROM in secure download mode,
\* or the response with its status bytes
UpBodies == { <<>>, <<0, 0>>, <<0, 0, 0, 0>>, <<1, 6>>, <<1, 6, 0, 0>> }

UpReplies ==
    { [kind |-> k, data |-> <<>>] : k \in {"timeout", "framing", "no_match", "unsupported"} }
    \cup { [kind |-> "response", data |-> d] : d \in UpBodies }

\* check_command on the reply r with the reader in state `reader`: the
\* exception raised (or "none"), what failed, and the state of
\* self._slip_reader afterwards.  slip_reader raises FatalError on a timeout
\* and on a framing error (lines 2845-2870), which finishes the generator;
\* next() on a finished generator raises StopIteration; command() replaces
\* the generator (flush_input) before it raises UnsupportedCommandError
UpExchange(cls, reader, r) ==
    IF reader = "finished"
      THEN [err |-> "StopIteration", msg |-> "", reader |-> "finished"]
    ELSE CASE r.kind \in {"timeout", "framing"} ->
                [err |-> "FatalError", msg |-> r.kind, reader |-> "finished"]
           [] r.kind = "no_match" ->
                [err |-> "FatalError", msg |-> "no_match", reader |-> "running"]
           [] r.kind = "unsupported" ->
                [err |-> "UnsupportedCommandError", msg |-> "", reader |-> "running"]
           [] OTHER ->
                LET c == CheckCommand(cls, OkReply(Zero, r.data))
                IN [err |-> c.err,
                    msg |-> IF c.err = "none" THEN ""
                            ELSE IF Len(r.data) < STATUS_BYTES_LENGTH(cls)
                              THEN "short status" ELSE "bad status",
                    reader |-> "running"]

NoUpReply == [kind |-> "none", data |-> <<>>]

UpOut(kind, val) == [kind |-> kind, val |-> val]

UpRunning == UpOut("running", "")

NoLoop == [field |-> "", seq |-> 0]

UpCalls ==
    { [name |-> "run_stub", entrypoint |-> 0] }
    \cup { [name |-> "mem_finish", entrypoint |-> e] : e \in {0, 1074521496} }

\* run_stub on a loader that is a stub already happens when detect_chip saw
\* the stub answer the sync (lines 360-362); self.ESP_RAM_BLOCK is
\* USB_RAM_BLOCK only on an ESP32-S2 loader (lines 1747-1749, 2005-2007)
UploadInit ==
    /\ up_pc = "ready"
    /\ up_self \in { Uploader(cls, d, b) : cls \in RomClasses \cup StubClasses,
                                           d \in BOOLEAN,
                                           b \in {ESP_RAM_BLOCK, USB_RAM_BLOCK} }
    /\ up_self.ESP_RAM_BLOCK = USB_RAM_BLOCK => IsInstance(up_self.cls, "ESP32S2ROM")
    /\ up_call \in UpCalls
    /\ (up_call.name = "run_stub" /\ IS_STUB(up_self.cls)) => up_self.sync_stub_detected
    /\ up_call.name # "run_stub" => ~up_self.sync_stub_detected
    /\ up_loop = NoLoop
    /\ up_sent = <<>>
    /\ up_reader = "running"
    /\ up_ignored = "none"
    /\ up_packet = "none"
    /\ up_reply = NoUpReply
    /\ up_result = UpRunning

\* the step of an upload: everything but the loader object and the call
UpGoto(next_pc, next_loop, next_sent, reader, ignored, result) ==
    /\ up_pc' = next_pc
    /\ up_loop' = next_loop
    /\ up_sent' = next_sent
    /\ up_reader' = reader
    /\ up_ignored' = ignored
    /\ up_result' = result
    /\ UNCHANGED <<up_self, up_call>>

\* the call ends with an exception or a return value
UpDone(reader, ignored, result) ==
    UpGoto("done", up_loop, up_sent, reader, ignored, result)

\* run_stub, lines 766-781, up to the first mem_begin; or mem_finish, lines
\* 674-683, up to its check_command
UpInvoke ==
    /\ up_pc = "ready"
    /\ IF up_call.name = "mem_finish"
         THEN UpGoto("mem_end", up_loop,
                     Append(up_sent, MemFinishRequest(up_self.cls, up_call.entrypoint)),
                     up_reader, up_ignored, up_result)
       ELSE IF up_self.sync_stub_detected
         THEN UpDone("running", up_ignored, UpOut("return", STUB_CLASS(up_self.cls)))
       ELSE UpGoto("mem_begin", [field |-> "text", seq |-> 0],
                   Append(up_sent, StubMemBegin(up_self, "text")),
                   up_reader, up_ignored, up_result)
    /\ UNCHANGED <<up_packet, up_reply>>
    /\ UNCHANGED notUpload

\* run_stub, lines 781-785: mem_begin has returned or raised; the first block
\* of the field follows
UpMemBeginReply ==
    /\ up_pc = "mem_begin"
    /\ \E r \in UpReplies :
         /\ up_reply' = r
         /\ LET x == UpExchange(up_self.cls, up_reader, r)
            IN IF x.err # "none"
                 THEN UpDone(x.reader, up_ignored, UpOut(x.err, x.msg))
               ELSE IF StubFieldBlocks(up_self, up_loop.field) = 0
                 THEN UpDone(x.reader, up_ignored, UpOut("return", "empty field"))
               ELSE UpGoto("mem_block", [up_loop EXCEPT !.seq = 0],
                           Append(up_sent, StubMemBlock(up_self, up_loop.field, 0)),
                           x.reader, up_ignored, up_result)
    /\ UNCHANGED up_packet
    /\ UNCHANGED notUpload

\* run_stub, lines 776-788: mem_block has returned or raised; the next block
\* follows, or the mem_begin of the data, or mem_finish(stub['entry'])
UpMemBlockReply ==
    /\ up_pc = "mem_block"
    /\ \E r \in UpReplies :
         /\ up_reply' = r
         /\ LET x == UpExchange(up_self.cls, up_reader, r)
                seq == up_loop.seq + 1
            IN IF x.err # "none"
                 THEN UpDone(x.reader, up_ignored, UpOut(x.err, x.msg))
               ELSE IF seq < StubFieldBlocks(up_self, up_loop.field)
                 THEN UpGoto("mem_block", [up_loop EXCEPT !.seq = seq],
                             Append(up_sent, StubMemBlock(up_self, up_loop.field, seq)),
                             x.reader, up_ignored, up_result)
               ELSE IF up_loop.field = "text"
                 THEN UpGoto("mem_begin", [field |-> "data", seq |-> 0],
                             Append(up_sent, StubMemBegin(up_self, "data")),
                             x.reader, up_ignored, up_result)
               ELSE UpGoto("mem_end", up_loop,
                           Append(up_sent,
                                  MemFinishRequest(up_self.cls, STUB_CODE(up_self.cls).entry)),
                           x.reader, up_ignored, up_result)
    /\ UNCHANGED up_packet
    /\ UNCHANGED notUpload

\* mem_finish, lines 681-687: check_command has returned or raised; a
\* FatalError is swallowed unless the loader is a stub.  run_stub goes on to
\* read the stub's greeting
UpMemEndReply ==
    /\ up_pc = "mem_end"
    /\ \E r \in UpReplies :
         /\ up_reply' = r
         /\ LET x == UpExchange(up_self.cls, up_reader, r)
                ignored == IF x.err = "none" THEN "none" ELSE x.msg
            IN IF x.err = "none" \/ MemFinishIgnores(up_self.cls, x.err)
                 THEN IF up_call.name = "run_stub"
                        THEN UpGoto("hello", up_loop, up_sent, x.reader, ignored, up_result)
                        ELSE UpDone(x.reader, ignored, UpOut("return", "None"))
                 ELSE UpDone(x.reader, up_ignored, UpOut(x.err, x.msg))
    /\ UNCHANGED up_packet
    /\ UNCHANGED notUpload

\* run_stub, lines 789-793: p = self.read(), with the frame the target sends
\* next (the stub's b'OHAI', another packet, or nothing before the timeout);
\* the stub loader object made on success starts a new reader (flush_input)
UpHello ==
    /\ up_pc = "hello"
    /\ \E p \in {"OHAI", "OHNO", "nothing"} :
         /\ up_packet' = p
         /\ IF up_reader = "finished"
              THEN UpDone("finished", up_ignored, UpOut("StopIteration", ""))
            ELSE IF p = "nothing"
              THEN UpDone("finished", up_ignored, UpOut("FatalError", "timeout"))
            ELSE IF p # "OHAI"
              THEN UpDone("running", up_ignored, UpOut("FatalError", "Failed to start stub"))
            ELSE UpDone("running", up_ignored, UpOut("return", STUB_CLASS(up_self.cls)))
    /\ UNCHANGED up_reply
    /\ UNCHANGED notUpload

(***************************************************************************)
(* write_flash, one file written uncompressed, request by request          *)
(***************************************************************************)
\* FLASH_ENCRYPTED_WRITE_ALIGN, lines 1376, 1609 and 1895 (ESP32ROM and its
\* subclasses; ESP8266ROM has none)
FLASH_ENCRYPTED_WRITE_ALIGN(cls) ==
    IF IsInstance(cls, "ESP32S2ROM") \/ IsInstance(cls, "ESP32C3ROM") THEN 16 ELSE 32

\* BOOTLOADER_FLASH_OFFSET, lines 1181, 1356 and 1864
BOOTLOADER_FLASH_OFFSET(cls) ==
    IF IsInstance(cls, "ESP32ROM") /\ ~IsInstance(cls, "ESP32C3ROM") THEN 4096 ELSE 0

CHIP_DETECT_MAGIC_REG_ADDR == 1073745920

\* the loader object write_flash is given: its class, self.FLASH_WRITE_SIZE
\* and secure_download_mode
FlashWriter(cls, write_size, secure) ==
    [cls |-> cls, FLASH_WRITE_SIZE |-> write_size, secure_download_mode |-> secure]

\* argfile.read(): n bytes, the thirds filled with 1, 2 and 3
FileBytes(n) == RCat(RCat(Run(1, n \div 3), Run(2, n \div 3)), Run(3, n - 2 * (n \div 3)))

\* _update_image_flash_params, lines 3068-3086, for an image that does not
\* begin with ESP_IMAGE_MAGIC: every return before the header is rewritten
\* gives the image back
_update_image_flash_params(cls, address, flash_mode, img) ==
    IF RLen(img) < 8 THEN img
    ELSE IF address # BOOTLOADER_FLASH_OFFSET(cls) THEN img
    ELSE IF flash_mode = "keep" THEN img
    ELSE CASE RByte(img, 0) # ESP_IMAGE_MAGIC -> img

\* flash_begin, lines 693-708
FlashBeginRequest(self, size, offset, begin_rom_encrypted) ==
    LET num_blocks == (size + self.FLASH_WRITE_SIZE - 1) \div self.FLASH_WRITE_SIZE
        erase_size == get_erase_size(self.cls, offset, size)
        timeout == IF IS_STUB(self.cls) THEN DEFAULT_TIMEOUT
                   ELSE timeout_per_mb(ERASE_REGION_TIMEOUT_PER_MB, size)
        params == <<erase_size, num_blocks, self.FLASH_WRITE_SIZE, offset>>
    IN UpReq("FLASH_BEGIN",
             IF RomEncryptedParam(self.cls)
               THEN Append(params, IF begin_rom_encrypted THEN 1 ELSE 0)
               ELSE params,
             <<>>, 0, timeout)

\* flash_block, lines 713-718, and flash_encrypt_block, lines 721-731
FlashBlockRequest(self, encrypted, data, seq) ==
    UpReq(BlockOp(self.cls, FALSE, encrypted), <<RLen(data), seq, 0, 0>>, data,
          checksum(data, ESP_CHECKSUM_MAGIC), DEFAULT_TIMEOUT)

\* a block loop that sends the last block as short as the image leaves it
WriteBlockUnpadded(self, img) == RSlice(img, 0, self.FLASH_WRITE_SIZE)

\* write_flash, lines 3216 and 3229: the block at the front of what is left
\* of the image, padded to FLASH_WRITE_SIZE
WriteBlock(self, img) ==
    LET block == RSlice(img, 0, self.FLASH_WRITE_SIZE)
    IN RCat(block, Run(255, self.FLASH_WRITE_SIZE - RLen(block)))

\* read_reg, lines 622-625, which goes through command() and looks at the
\* first byte of the data only
WfReadReg(cls, reader, r) ==
    IF r.kind = "response" /\ reader # "finished"
      THEN [err |-> IF r.data = <<>> THEN "IndexError"
                    ELSE IF r.data[1] # 0 THEN "FatalError" ELSE "none",
            msg |-> IF r.data = <<>> \/ r.data[1] # 0 THEN "read_reg" ELSE "",
            reader |-> reader]
      ELSE UpExchange(cls, reader, r)

\* the files drawn: empty, one byte, and around each multiple of the block
\* size up to MaxFileBlocks blocks
FileSizes(write_size) ==
    {0, 1, (MaxFileBlocks - 1) * write_size + 1}
    \cup {k * write_size - d : k \in 1..MaxFileBlocks, d \in {0, 5}}

WriteAddresses == {0, 4096}

\* one file of all_files at line 3187.  Files are encrypted only on loaders
\* that have FLASH_ENCRYPTED_WRITE_ALIGN; a stub loader is never in secure
\* download mode; FLASH_WRITE_SIZE is USB_RAM_BLOCK on an ESP32-S2 stub
\* reached over USB (lines 2005-2007)
WriteInitAt(start_pc, addresses, ignores) ==
    /\ up_pc = start_pc
    /\ up_self \in { FlashWriter(cls, w, s) : cls \in RomClasses \cup StubClasses,
                                              w \in {1024, 16384, USB_RAM_BLOCK},
                                              s \in BOOLEAN }
    /\ \/ up_self.FLASH_WRITE_SIZE = FLASH_WRITE_SIZE(up_self.cls)
       \/ up_self.cls = "ESP32S2StubLoader" /\ up_self.FLASH_WRITE_SIZE = USB_RAM_BLOCK
    /\ up_self.secure_download_mode => ~IS_STUB(up_self.cls)
    /\ up_call \in { [name |-> "write_flash", address |-> a, size |-> n,
                      encrypted |-> e, flash_mode |-> m,
                      ignore_flash_encryption_efuse_setting |-> i] :
                       a \in addresses, n \in FileSizes(up_self.FLASH_WRITE_SIZE),
                       e \in BOOLEAN, m \in {"keep", "dio"}, i \in ignores }
    /\ (start_pc = "ready" /\ up_call.encrypted) => IsInstance(up_self.cls, "ESP32ROM")
    /\ up_loop = NoLoop
    /\ up_sent = <<>>
    /\ up_reader = "running"
    /\ up_ignored = "none"
    /\ up_packet = "none"
    /\ up_reply = NoUpReply
    /\ up_result = UpRunning

WriteInit == WriteInitAt("ready", WriteAddresses, {FALSE})

\* addresses on a 32-byte boundary, on a 16-byte boundary only, and on neither
EncryptAddresses == {0, 4096, 4112, 4100}

\* write_flash at its first line, with one file given; --encrypt is whether
\* the file is to be written encrypted
EncryptInit == WriteInitAt("checks", EncryptAddresses, BOOLEAN)

\* write_flash, lines 3122-3152: when the file is to be encrypted, the efuses
\* are read unless the loader is in secure download mode (the reads stand as
\* one READ_REG request; what they show is drawn: encrypted download
\* disabled, crypt config or key not programmed, or all set), then the
\* address is tested against FLASH_ENCRYPTED_WRITE_ALIGN, and do_write
\* decides unless --ignore-flash-encryption-efuse-setting was given.
\* ESP8266ROM has neither the efuse methods nor the attribute
EncChecks ==
    /\ up_pc = "checks"
    /\ \E efuse \in {"read failed", "download disabled", "not programmed", "programmed"} :
         LET reads == IF up_self.secure_download_mode THEN up_sent
                      ELSE Append(up_sent,
                                  UpReq("READ_REG", <<"efuse">>, <<>>, 0, DEFAULT_TIMEOUT))
             aligned == up_call.address % FLASH_ENCRYPTED_WRITE_ALIGN(up_self.cls) = 0
             do_write == (up_self.secure_download_mode \/ efuse = "programmed") /\ aligned
         IN IF ~up_call.encrypted
              THEN UpGoto("ready", up_loop, up_sent, up_reader, up_ignored, up_result)
            ELSE IF ~IsInstance(up_self.cls, "ESP32ROM")
              THEN UpDone(up_reader, up_ignored, UpOut("AttributeError", ""))
            ELSE IF ~up_self.secure_download_mode /\ efuse = "read failed"
              THEN UpGoto("done", up_loop, reads, up_reader, up_ignored,
                          UpOut("FatalError", "read_reg"))
            ELSE IF ~up_self.secure_download_mode /\ efuse = "download disabled"
              THEN UpGoto("done", up_loop, reads, up_reader, up_ignored,
                          UpOut("FatalError", "encrypt functionality disabled"))
            ELSE IF ~do_write /\ ~up_call.ignore_flash_encryption_efuse_setting
              THEN UpGoto("done", up_loop, reads, up_reader, up_ignored,
                          UpOut("FatalError", "Can't perform encrypted flash write"))
            ELSE UpGoto("ready", up_loop, reads, up_reader, up_ignored, up_result)
    /\ UNCHANGED <<up_packet, up_reply>>
    /\ UNCHANGED notUpload

\* write_flash, lines 3198-3208: the file is read and padded; an empty file
\* is skipped, any other begins with flash_begin(uncsize, address)
WfFile ==
    /\ up_pc = "ready"
    /\ LET img == pad_to(FileBytes(up_call.size),
                           IF up_call.encrypted
                             THEN FLASH_ENCRYPTED_WRITE_ALIGN(up_self.cls) ELSE 4,
                           255)
           updated == _update_image_flash_params(up_self.cls, up_call.address,
                                                 up_call.flash_mode, img)
           uncsize == RLen(updated)
       IN IF RLen(img) = 0
            THEN UpDone(up_reader, up_ignored, UpOut("return", "empty"))
            ELSE UpGoto("flash_begin",
                        [image |-> updated, seq |-> 0, uncsize |-> uncsize],
                        Append(up_sent, FlashBeginRequest(up_self, uncsize, up_call.address,
                                                          up_call.encrypted)),
                        up_reader, up_ignored, up_result)
    /\ UNCHANGED <<up_packet, up_reply>>
    /\ UNCHANGED notUpload

\* write_flash, lines 3209-3232: flash_begin has returned or raised; the
\* first block follows
WfBeginReply ==
    /\ up_pc = "flash_begin"
    /\ \E r \in UpReplies :
         /\ up_reply' = r
         /\ LET x == UpExchange(up_self.cls, up_reader, r)
            IN IF x.err # "none"
                 THEN UpDone(x.reader, up_ignored, UpOut(x.err, x.msg))
                 ELSE UpGoto("flash_block", up_loop,
                             Append(up_sent,
                                    FlashBlockRequest(up_self, up_call.encrypted,
                                                      WriteBlock(up_self, up_loop.image), 0)),
                             x.reader, up_ignored, up_result)
    /\ UNCHANGED up_packet
    /\ UNCHANGED notUpload

\* write_flash, lines 3268-3269, after the last block (and the read_reg of a
\* stub): the flash MD5 is asked for unless the file was encrypted or the
\* loader is in secure download mode; flash_md5sum raises
\* NotImplementedInROMError on an ESP8266 ROM, which write_flash passes over
WfAfterBlocks(reader) ==
    IF up_call.encrypted \/ up_self.secure_download_mode
      THEN UpDone(reader, up_ignored, UpOut("return", "written"))
    ELSE IF ~StubOrEsp32(up_self.cls)
      THEN UpDone(reader, up_ignored, UpOut("return", "written"))
    ELSE UpGoto("md5", up_loop,
                Append(up_sent,
                       UpReq("SPI_FLASH_MD5", <<up_call.address, up_loop.uncsize, 0, 0>>,
                             <<>>, 0, timeout_per_mb(MD5_TIMEOUT_PER_MB, up_loop.uncsize))),
                reader, up_ignored, up_result)

\* write_flash, lines 3211-3253: flash_block or flash_encrypt_block has
\* returned or raised; the image loses its first FLASH_WRITE_SIZE bytes, and
\* the next block follows while bytes are left; a stub is then asked for the
\* magic register
WfBlockReply ==
    /\ up_pc = "flash_block"
    /\ \E r \in UpReplies :
         /\ up_reply' = r
         /\ LET x == UpExchange(up_self.cls, up_reader, r)
                img == RDrop(up_loop.image, up_self.FLASH_WRITE_SIZE)
                seq == up_loop.seq + 1
            IN IF x.err # "none"
                 THEN UpDone(x.reader, up_ignored, UpOut(x.err, x.msg))
               ELSE IF RLen(img) > 0
                 THEN UpGoto("flash_block", [up_loop EXCEPT !.image = img, !.seq = seq],
                             Append(up_sent,
                                    FlashBlockRequest(up_self, up_call.encrypted,
                                                      WriteBlock(up_self, img), seq)),
                             x.reader, up_ignored, up_result)
               ELSE IF IS_STUB(up_self.cls)
                 THEN UpGoto("flush", [up_loop EXCEPT !.image = img, !.seq = seq],
                             Append(up_sent,
                                    UpReq("READ_REG", <<CHIP_DETECT_MAGIC_REG_ADDR>>, <<>>, 0,
                                          DEFAULT_TIMEOUT)),
                             x.reader, up_ignored, up_result)
               ELSE WfAfterBlocks(x.reader)
    /\ UNCHANGED up_packet
    /\ UNCHANGED notUpload

\* write_flash, lines 3250-3269: the read_reg of a stub has returned or raised
WfFlushReply ==
    /\ up_pc = "flush"
    /\ \E r \in UpReplies :
         /\ up_reply' = r
         /\ LET x == WfReadReg(up_self.cls, up_reader, r)
            IN IF x.err # "none"
                 THEN UpDone(x.reader, up_ignored, UpOut(x.err, x.msg))
                 ELSE WfAfterBlocks(x.reader)
    /\ UNCHANGED up_packet
    /\ UNCHANGED notUpload

\* write_flash, lines 3270-3278: flash_md5sum has returned or raised; the
\* digest is that of the image or another
WfMd5Reply ==
    /\ up_pc = "md5"
    /\ \E r \in UpReplies, same \in BOOLEAN :
         /\ up_reply' = r
         /\ LET x == UpExchange(up_self.cls, up_reader, r)
            IN IF x.err # "none"
                 THEN UpDone(x.reader, up_ignored, UpOut(x.err, x.msg))
               ELSE IF ~same
                 THEN UpDone(x.reader, up_ignored,
                             UpOut("FatalError", "MD5 of file does not match data in flash!"))
               ELSE UpDone(x.reader, up_ignored, UpOut("return", "verified"))
    /\ UNCHANGED up_packet
    /\ UNCHANGED notUpload

(***************************************************************************)
(* read_flash of a stub loader, frame by frame                             *)
(***************************************************************************)
\* str.upper() on ASCII codes
Upper(s) == [i \in 1..Len(s) |-> IF s[i] >= 97 /\ s[i] <= 122 THEN s[i] - 32 ELSE s[i]]

\* ESPLoader.write(packet) outside command(): a packet that is no request
RawWrite(pkt) == [op |-> "write", words |-> <<>>, data |-> pkt, chk |-> 0, timeout |-> 0]

\* an acknowledgement that holds the length of the frame just read
FlashReadAckOfFrame(len_data, len_p) == RawWrite(PackU32(len_p))

\* read_flash, line 903: self.write(struct.pack('<I', len(data)))
FlashReadAck(len_data, len_p) == RawWrite(PackU32(len_data))

\* a comparison that takes every 16-byte frame for the digest of the data
DigestAccepted(digest_frame, content) == TRUE

\* read_flash, lines 912-914: hexify(digest_frame).upper() against
\* hashlib.md5(data).hexdigest().upper(); content stands for the data read
DigestMatches(digest_frame, content) ==
    Upper(hexify(digest_frame, TRUE)) = Upper(HexDigest(content))

\* the lengths asked for: nothing, one byte, and up to MaxReadSectors
\* sectors with and without a byte more
ReadLengths ==
    {0, 1} \cup {k * FLASH_SECTOR_SIZE + d : k \in 1..MaxReadSectors, d \in {0, 1}}

\* the frames the port gives: none before the timeout, a byte that breaks
\* the framing, or a packet of n bytes that carries the flash contents (1) or
\* other bytes (2)
DataFrames(missing) ==
    { [kind |-> k, len |-> 0, content |-> 1] : k \in {"timeout", "framing"} }
    \cup { [kind |-> "packet", len |-> n, content |-> c] :
             n \in {0, 1, FLASH_SECTOR_SIZE - 1, FLASH_SECTOR_SIZE, FLASH_SECTOR_SIZE + 1,
                    missing, missing + 1},
             c \in {1, 2} }

\* the digest frames: the MD5 of the flash contents, of other bytes, of
\* something else again, 15 bytes, the digest as 32 hex digits, nothing
DigestFrames ==
    { [kind |-> k, data |-> <<>>] : k \in {"timeout", "framing"} }
    \cup { [kind |-> "packet", data |-> d] :
             d \in {Md5Digest(1), Md5Digest(2), Md5Digest(3),
                    SubSeq(Md5Digest(1), 1, 15), HexDigest(1), <<>>} }

\* read_flash(offset, length) is called on a stub loader
ReadInit ==
    /\ up_pc = "ready"
    /\ up_self \in { [cls |-> cls] : cls \in StubClasses }
    /\ up_call \in { [name |-> "read_flash", offset |-> o, length |-> n] :
                       o \in {0, FLASH_SECTOR_SIZE}, n \in ReadLengths }
    /\ up_loop = [data |-> 0, content |-> 1, reads |-> <<>>]
    /\ up_sent = <<>>
    /\ up_reader = "running"
    /\ up_ignored = "none"
    /\ up_packet = "none"
    /\ up_reply = NoUpReply
    /\ up_result = UpRunning

\* p = self.read() in read_flash: noted with its length, what the frame
\* held when it is the digest frame, and how many packets had been written
\* when it was read
NoteRead(kind, len, body) ==
    [up_loop EXCEPT !.reads = Append(@, [kind |-> kind, len |-> len, body |-> body,
                                         written |-> Len(up_sent)])]

\* read_flash, lines 886-892: the READ_FLASH request
RfInvoke ==
    /\ up_pc = "ready"
    /\ UpGoto("read_flash", up_loop,
              Append(up_sent,
                     UpReq("READ_FLASH",
                           <<up_call.offset, up_call.length, FLASH_SECTOR_SIZE, 64>>,
                           <<>>, 0, DEFAULT_TIMEOUT)),
              up_reader, up_ignored, up_result)
    /\ UNCHANGED <<up_packet, up_reply>>
    /\ UNCHANGED notUpload

\* read_flash, lines 886-895: check_command has returned or raised
RfBeginReply ==
    /\ up_pc = "read_flash"
    /\ \E r \in UpReplies :
         /\ up_reply' = r
         /\ LET x == UpExchange(up_self.cls, up_reader, r)
            IN IF x.err # "none"
                 THEN UpDone(x.reader, up_ignored, UpOut(x.err, x.msg))
                 ELSE UpGoto(IF up_loop.data < up_call.length THEN "data" ELSE "digest",
                             up_loop, up_sent, x.reader, up_ignored, up_result)
    /\ UNCHANGED up_packet
    /\ UNCHANGED notUpload

\* read_flash, lines 895-908: one pass of "while len(data) < length", and
\* the test that follows the loop
RfData ==
    /\ up_pc = "data"
    /\ \E p \in DataFrames(up_call.length - up_loop.data) :
         LET len_data == up_loop.data + p.len
             read == [NoteRead("data", p.len, <<>>) EXCEPT
                        !.data = len_data,
                        !.content = IF p.content = 1 THEN up_loop.content ELSE 2]
             acked == Append(up_sent, FlashReadAck(len_data, p.len))
         IN IF p.kind # "packet"
              THEN UpDone("finished", up_ignored, UpOut("FatalError", p.kind))
            ELSE IF len_data < up_call.length /\ p.len < FLASH_SECTOR_SIZE
              THEN UpGoto("done", read, up_sent, up_reader, up_ignored,
                          UpOut("FatalError", "Corrupt data"))
            ELSE IF len_data < up_call.length
              THEN UpGoto("data", read, acked, up_reader, up_ignored, up_result)
            ELSE IF len_data > up_call.length
              THEN UpGoto("done", read, acked, up_reader, up_ignored,
                          UpOut("FatalError", "Read more than expected"))
            ELSE UpGoto("digest", read, acked, up_reader, up_ignored, up_result)
    /\ UNCHANGED <<up_packet, up_reply>>
    /\ UNCHANGED notUpload

\* read_flash, lines 910-915: the digest frame is read and compared
RfDigest ==
    /\ up_pc = "digest"
    /\ \E digest_frame \in DigestFrames :
         LET read == NoteRead("digest", Len(digest_frame.data), digest_frame.data)
         IN IF digest_frame.kind # "packet"
              THEN UpDone("finished", up_ignored, UpOut("FatalError", digest_frame.kind))
            ELSE IF Len(digest_frame.data) # 16
              THEN UpGoto("done", read, up_sent, up_reader, up_ignored,
                          UpOut("FatalError", "Expected digest"))
            ELSE IF ~DigestMatches(digest_frame.data, up_loop.content)
              THEN UpGoto("done", read, up_sent, up_reader, up_ignored,
                          UpOut("FatalError", "Digest mismatch"))
            ELSE UpGoto("done", read, up_sent, up_reader, up_ignored,
                        UpOut("return", "data"))
    /\ UNCHANGED <<up_packet, up_reply>>
    /\ UNCHANGED notUpload

(***************************************************************************)
(* change_baud                                                             *)
(***************************************************************************)
\* a request that always carries 0 as the old baud rate
ChangeBaudRequestRom(cls, baud, port_baudrate) ==
    UpReq("CHANGE_BAUDRATE", <<baud, 0>>, <<>>, 0, DEFAULT_TIMEOUT)

\* change_baud, lines 857-858: struct.pack('<II', baud, second_arg)
ChangeBaudRequest(cls, baud, port_baudrate) ==
    LET second_arg == IF IS_STUB(cls) THEN port_baudrate ELSE 0
    IN UpReq("CHANGE_BAUDRATE", <<baud, second_arg>>, <<>>, 0, DEFAULT_TIMEOUT)

BaudRates == {ESP_ROM_BAUD, 2 * ESP_ROM_BAUD, 8 * ESP_ROM_BAUD}

\* the port before the call: its baud rate, the calls of flushInput and the
\* frame readers made so far
BaudPort(baudrate) ==
    [baudrate |-> baudrate, previous |-> baudrate, flushed |-> 0, readers |-> 1]

\* change_baud(baud) is called on a loader whose frame reader runs, or has
\* ended with an earlier read timeout
BaudInit ==
    /\ up_pc = "ready"
    /\ up_self \in { [cls |-> cls] : cls \in RomClasses \cup StubClasses }
    /\ up_call \in { [name |-> "change_baud", baud |-> b] : b \in BaudRates }
    /\ up_loop \in { BaudPort(b) : b \in BaudRates }
    /\ up_sent = <<>>
    /\ up_reader \in {"running", "finished"}
    /\ up_ignored = "none"
    /\ up_packet = "none"
    /\ up_reply = NoUpReply
    /\ up_result = UpRunning

\* what the port gives while command() waits: as for check_command, and a
\* response to another request with an empty body
BaudReplies == UpReplies \cup { [kind |-> "short_mismatch", data |-> <<>>] }

\* flush_input, lines 477-479: flushInput() and a new slip_reader
FlushInput(port) == [port EXCEPT !.flushed = @ + 1, !.readers = @ + 1]

\* command(), lines 408-448, on the reply r: the exception raised (or "none"),
\* the port and the state of self._slip_reader afterwards; the status bytes
\* of a response are not looked at
BaudExchange(port, reader, r) ==
    IF reader = "finished"
      THEN [err |-> "StopIteration", port |-> port, reader |-> "finished"]
    ELSE CASE r.kind \in {"timeout", "framing"} ->
                [err |-> "FatalError", port |-> port, reader |-> "finished"]
           [] r.kind = "no_match" ->
                [err |-> "FatalError", port |-> port, reader |-> "running"]
           [] r.kind = "short_mismatch" ->
                [err |-> "IndexError", port |-> port, reader |-> "running"]
           [] r.kind = "unsupported" ->
                [err |-> "UnsupportedCommandError", port |-> FlushInput(port),
                 reader |-> "running"]
           [] OTHER -> [err |-> "none", port |-> port, reader |-> "running"]

\* change_baud, lines 853-858: the decorator's test, then the request
CbInvoke ==
    /\ up_pc = "ready"
    /\ IF ~StubOrEsp32(up_self.cls)
         THEN UpDone(up_reader, up_ignored, UpOut("NotImplementedInROMError", ""))
         ELSE UpGoto("change_baud", up_loop,
                     Append(up_sent,
                            ChangeBaudRequest(up_self.cls, up_call.baud, up_loop.baudrate)),
                     up_reader, up_ignored, up_result)
    /\ UNCHANGED <<up_packet, up_reply>>
    /\ UNCHANGED notUpload

\* change_baud, lines 858-862: command() has returned or raised; then
\* _set_port_baudrate (lines 329-333), which raises FatalError when the
\* driver refuses the rate, and flush_input
CbReply ==
    /\ up_pc = "change_baud"
    /\ \E r \in BaudReplies, accepted \in BOOLEAN, kept \in BOOLEAN :
         /\ up_reply' = r
         /\ LET x == BaudExchange(up_loop, up_reader, r)
            IN IF x.err # "none"
                 THEN UpGoto("done", x.port, up_sent, x.reader, up_ignored,
                             UpOut(x.err, r.kind))
               ELSE IF ~accepted
                 THEN UpGoto("done",
                             IF kept THEN x.port
                             ELSE [x.port EXCEPT !.baudrate = up_call.baud],
                             up_sent, x.reader, up_ignored,
                             UpOut("FatalError", "Failed to set baud rate"))
               ELSE UpGoto("done",
                           FlushInput([x.port EXCEPT !.baudrate = up_call.baud]),
                           up_sent, "running", up_ignored, UpOut("return", "None"))
    /\ UNCHANGED up_packet
    /\ UNCHANGED notUpload
(***************************************************************************)
(* run_spiflash_command, register access by register access                *)
(***************************************************************************)
\* a 32-bit value as its upper and lower half
W32(v) == <<v \div 65536, v % 65536>>

\* SPI_REG_BASE and the SPI_*_OFFS of the class bodies (lines 1157-1163,
\* 1329-1342, 1597-1603, 1795-1801, 1856-1862) as the register addresses of
\* lines 970-982; dlen says whether SPI_MOSI_DLEN_OFFS is not None
SpiRegisters(cls) ==
    LET at(base, usr, usr1, usr2, mosi, miso, w0, dlen) ==
            [CMD |-> base, USR |-> base + usr, USR1 |-> base + usr1, USR2 |-> base + usr2,
             MOSI_DLEN |-> base + mosi, MISO_DLEN |-> base + miso, W0 |-> base + w0,
             dlen |-> dlen]
    IN CASE IsInstance(cls, "ESP8266ROM") -> at(1610613248, 28, 32, 36, 0, 0, 64, FALSE)
         [] IsInstance(cls, "ESP32S2ROM") -> at(1061167104, 24, 28, 32, 36, 40, 88, TRUE)
         [] IsInstance(cls, "ESP32S3BETA2ROM") -> at(1610620928, 24, 28, 32, 36, 40, 88, TRUE)
         [] IsInstance(cls, "ESP32C3ROM") -> at(1610620928, 24, 28, 32, 36, 40, 88, TRUE)
         [] OTHER -> at(1072963584, 28, 32, 36, 40, 44, 128, TRUE)

\* the registers of the SPI controller a command can touch
SpiAddresses(cls) ==
    LET r == SpiRegisters(cls)
    IN {r.CMD, r.USR, r.USR1, r.USR2, r.W0}
       \cup (IF r.dlen THEN {r.MOSI_DLEN, r.MISO_DLEN} ELSE {})
       \cup {r.W0 + 4 * k : k \in 0..15}

SpiRead(addr, into) == [op |-> "read", addr |-> addr, value |-> Zero, into |-> into]

SpiWrite(addr, value) == [op |-> "write", addr |-> addr, value |-> value, into |-> "none"]

\* set_data_lengths, lines 978-997
set_data_lengths(cls, mosi_bits, miso_bits) ==
    LET r == SpiRegisters(cls)
    IN IF r.dlen
         THEN (IF mosi_bits > 0 THEN <<SpiWrite(r.MOSI_DLEN, W32(mosi_bits - 1))>> ELSE <<>>)
              \o (IF miso_bits > 0 THEN <<SpiWrite(r.MISO_DLEN, W32(miso_bits - 1))>> ELSE <<>>)
       ELSE LET mosi_mask == IF mosi_bits = 0 THEN 0 ELSE mosi_bits - 1
                miso_mask == IF miso_bits = 0 THEN 0 ELSE miso_bits - 1
            IN <<SpiWrite(r.USR1, W32(miso_mask * 256 + mosi_mask * 131072))>>

\* lines 1021-1028: the data register cleared, or the data padded to words
\* and written from W0 upwards
SpiDataWrites(cls, data) ==
    LET r == SpiRegisters(cls)
        padded == pad_to(data, 4, 0)
        word(k) == <<RByte(padded, 4 * k + 2) + 256 * RByte(padded, 4 * k + 3),
                     RByte(padded, 4 * k) + 256 * RByte(padded, 4 * k + 1)>>
    IN IF RLen(data) = 0 THEN <<SpiWrite(r.W0, Zero)>>
       ELSE [k \in 1..(RLen(padded) \div 4) |-> SpiWrite(r.W0 + 4 * (k - 1), word(k - 1))]

\* a restore that leaves SPI_USR2 as the command set it
SpiRestoreUsrOnly(cls, old_spi_usr, old_spi_usr2) ==
    <<SpiWrite(SpiRegisters(cls).USR, old_spi_usr)>>

\* lines 1041-1043: restore some SPI controller registers
SpiRestore(cls, old_spi_usr, old_spi_usr2) ==
    <<SpiWrite(SpiRegisters(cls).USR, old_spi_usr),
      SpiWrite(SpiRegisters(cls).USR2, old_spi_usr2)>>

\* SPI_CMD_USR, line 1000
SPI_CMD_USR == W32(262144)

\* run_spiflash_command, lines 1010-1043, as the register accesses it makes
\* in order; "poll" is wait_done
SpiScript(cls, c, old_spi_usr, old_spi_usr2) ==
    LET r == SpiRegisters(cls)
        data_bits == RLen(c.data) * 8
        flags == <<32768 + (IF c.read_bits > 0 THEN 4096 ELSE 0)
                         + (IF data_bits > 0 THEN 2048 ELSE 0), 0>>
    IN <<SpiRead(r.USR, "old_spi_usr"), SpiRead(r.USR2, "old_spi_usr2")>>
       \o set_data_lengths(cls, data_bits, c.read_bits)
       \o <<SpiWrite(r.USR, flags),
            SpiWrite(r.USR2, <<7 * 4096, c.spiflash_command>>)>>
       \o SpiDataWrites(cls, c.data)
       \o <<SpiWrite(r.CMD, SPI_CMD_USR),
            [op |-> "poll", addr |-> r.CMD, value |-> Zero, into |-> "none"],
            SpiRead(r.W0, "status")>>
       \o SpiRestore(cls, old_spi_usr, old_spi_usr2)

\* read_reg, line 622, and write_reg, lines 629-634, as requests
SpiRequest(item) ==
    IF item.op = "write"
      THEN UpReq("WRITE_REG", <<item.addr, item.value, <<65535, 65535>>, 0>>, <<>>, 0,
                 DEFAULT_TIMEOUT)
      ELSE UpReq("READ_REG", <<item.addr>>, <<>>, 0, DEFAULT_TIMEOUT)

\* what the registers can hold before the call, and what the flash chip
\* can answer
SpiWords == {Zero, <<32768, 64>>}

SpiDataLengths == {0, 1, 5, 64, 65}

SpiReadBits == {0, 8, 32, 33}

\* run_spiflash_command(spiflash_command, data, read_bits) is called; the
\* target's registers hold anything
SpiInit ==
    /\ up_pc = "ready"
    /\ up_self \in { [cls |-> cls] : cls \in RomClasses \cup StubClasses }
    /\ up_call \in { [name |-> "run_spiflash_command", spiflash_command |-> 159,
                      data |-> Run(171, n), read_bits |-> b] :
                       n \in SpiDataLengths, b \in SpiReadBits }
    /\ \E usr \in SpiWords, usr2 \in SpiWords :
          LET target == [a \in SpiAddresses(up_self.cls) |->
                            IF a = SpiRegisters(up_self.cls).USR THEN usr
                            ELSE IF a = SpiRegisters(up_self.cls).USR2 THEN usr2
                            ELSE Zero]
          IN up_loop = [step |-> 1, polls |-> 0, target |-> target, before |-> target,
                        old_spi_usr |-> Zero, old_spi_usr2 |-> Zero, status |-> Zero]
    /\ up_sent = <<>>
    /\ up_reader = "running"
    /\ up_ignored = "none"
    /\ up_packet = "none"
    /\ up_reply = NoUpReply
    /\ up_result = UpRunning

\* lines 1005-1008: the two limits
SpiInvoke ==
    /\ up_pc = "ready"
    /\ IF up_call.read_bits > 32
         THEN UpDone(up_reader, up_ignored,
                     UpOut("FatalError", "Reading more than 32 bits back"))
       ELSE IF RLen(up_call.data) > 64
         THEN UpDone(up_reader, up_ignored,
                     UpOut("FatalError", "Writing more than 64 bytes of data"))
       ELSE UpGoto("spi", up_loop, up_sent, up_reader, up_ignored, up_result)
    /\ UNCHANGED <<up_packet, up_reply>>
    /\ UNCHANGED notUpload

\* one read_reg or write_reg of the script: the request is written, the
\* target reads or writes the register and answers, or the answer is lost
\* or carries a failure status.  The target starts the command when
\* SPI_CMD_USR is written to the command register: the reply of the flash
\* chip is then in W0, and reading the command register tells whether the
\* command is still running
SpiAccess ==
    /\ up_pc = "spi"
    /\ \E script \in {SpiScript(up_self.cls, up_call, up_loop.old_spi_usr,
                                up_loop.old_spi_usr2)} :
       \E item \in {script[up_loop.step]}, r \in {SpiRegisters(up_self.cls)} :
       \E requested \in {Append(up_sent, SpiRequest(item))} :
          \E outcome \in {"ok", "timeout", "failed"}, answer \in SpiWords, busy \in BOOLEAN :
            LET written == IF item.op # "write" THEN up_loop.target
                           ELSE IF item.addr = r.CMD
                             THEN [up_loop.target EXCEPT ![r.W0] = answer]
                           ELSE [up_loop.target EXCEPT ![item.addr] = item.value]
                val == IF item.op = "poll" THEN (IF busy THEN SPI_CMD_USR ELSE Zero)
                       ELSE up_loop.target[item.addr]
                got == CASE item.into = "old_spi_usr" -> [up_loop EXCEPT !.old_spi_usr = val]
                         [] item.into = "old_spi_usr2" -> [up_loop EXCEPT !.old_spi_usr2 = val]
                         [] item.into = "status" -> [up_loop EXCEPT !.status = val]
                         [] OTHER -> up_loop
                next == [got EXCEPT !.target = written, !.step = @ + 1]
            IN /\ up_reply' = [kind |-> outcome, data |-> <<>>]
               /\ CASE outcome = "timeout" ->
                         UpGoto("done", [up_loop EXCEPT !.target = written], requested,
                                "finished", up_ignored, UpOut("FatalError", "timeout"))
                    [] outcome = "failed" ->
                         UpGoto("done", up_loop, requested, up_reader, up_ignored,
                                UpOut("FatalError", "bad status"))
                    [] item.op = "poll" /\ busy ->
                         IF up_loop.polls + 1 < 10
                           THEN UpGoto("spi", [up_loop EXCEPT !.polls = @ + 1], requested,
                                       up_reader, up_ignored, up_result)
                           ELSE UpGoto("done", [up_loop EXCEPT !.polls = @ + 1], requested,
                                       up_reader, up_ignored,
                                       UpOut("FatalError",
                                             "SPI command did not complete in time"))
                    [] up_loop.step = Len(script) ->
                         UpGoto("done", next, requested, up_reader, up_ignored,
                                UpOut("return", "status"))
                    [] OTHER ->
                         UpGoto("spi", next, requested, up_reader, up_ignored, up_result)
    /\ UNCHANGED up_packet
    /\ UNCHANGED notUpload
(***************************************************************************)
(* save with an ELF digest to patch in (--elf-sha256-offset)               *)
(***************************************************************************)
SHA256_DIGEST_LEN == 32

MaxShaSegments == 2

\* e.sha256() of elf2image, line 3393: 32 bytes, not all of them zero
ElfSha256 == RCat(Run(201, 16), Run(102, 16))

\* a patch that writes over whatever the segment holds
PatchUnchecked(img, file_pos, segment_data) ==
    LET patch_offset == img.elf_sha256_offset - file_pos - SEG_HEADER_LEN
    IN IF img.elf_sha256_offset >= file_pos
             /\ img.elf_sha256_offset < file_pos + RLen(segment_data)
             /\ patch_offset >= 0
             /\ patch_offset + SHA256_DIGEST_LEN <= RLen(segment_data)
         THEN [err |-> "none",
               data |-> RCat(RCat(RTake(segment_data, patch_offset), img.elf_sha256),
                             RDrop(segment_data, patch_offset + SHA256_DIGEST_LEN))]
         ELSE [err |-> "none", data |-> segment_data]

\* BaseFirmwareImage.maybe_patch_segment_data, lines 2187-2208; file_pos is
\* f.tell()
maybe_patch_segment_data(img, file_pos, segment_data) ==
    LET segment_len == RLen(segment_data)
        patch_offset == img.elf_sha256_offset - file_pos
    IN IF img.elf_sha256_offset >= file_pos
             /\ img.elf_sha256_offset < file_pos + segment_len
         THEN IF patch_offset < SEG_HEADER_LEN
                   \/ patch_offset + SHA256_DIGEST_LEN > segment_len
                THEN [err |-> "Cannot place SHA256 digest on segment boundary",
                      data |-> segment_data]
              ELSE IF RSlice(segment_data, patch_offset - SEG_HEADER_LEN, SHA256_DIGEST_LEN)
                         # Run(0, SHA256_DIGEST_LEN)
                THEN [err |-> "Contents of segment at SHA256 digest offset are not all zero",
                      data |-> segment_data]
              ELSE [err |-> "none",
                    data |-> RCat(RCat(RTake(segment_data, patch_offset - SEG_HEADER_LEN),
                                       img.elf_sha256),
                                  RDrop(segment_data,
                                        patch_offset - SEG_HEADER_LEN + SHA256_DIGEST_LEN))]
         ELSE [err |-> "none", data |-> segment_data]

\* the RAM segments of the images: 8, 48 or 64 bytes, all zero or all 0x55
ShaSegments(n) ==
    [1..n -> { ImageSegment(1073643520, Run(b, len), NoOffs) :
                 b \in {0, 85}, len \in {8, 48, 64} }]

\* the offsets asked for: in the file header, in segment headers, in data
\* areas and past the end of the file
ShaOffsets == {4, 12, 16, 24, 28, 56, 60, 64, 72, 80, 88, 500}

\* elf2image, lines 3392-3394, for an image of the older variant, version 1,
\* with no IROM segment: save() is about to run
ShaInit ==
    /\ img_pc = "save"
    /\ \E n \in 1..MaxShaSegments :
         image \in { [cls |-> "ESP8266ROMFirmwareImage", segments |-> s, flash_mode |-> 0,
                      flash_size_freq |-> 0, entrypoint |-> 1074790400,
                      elf_sha256 |-> ElfSha256, elf_sha256_offset |-> o] :
                       s \in ShaSegments(n), o \in ShaOffsets }
    /\ f = NoFile
    /\ sv = [written |-> 0, checksum |-> ESP_CHECKSUM_MAGIC, error |-> "none"]
    /\ loaded = NotLoaded

\* ESP8266ROMFirmwareImage.save, lines 2331-2333: the header of the image
\* file
ShaSaveHeader ==
    /\ img_pc = "save"
    /\ f' = [f EXCEPT !.data = write_common_header(<<>>, image,
                                                   get_non_irom_segments(image))]
    /\ img_pc' = "segments"
    /\ UNCHANGED <<image, sv, loaded>>
    /\ UNCHANGED notImg

\* lines 2335-2336 and save_segment, lines 2210-2215: one pass of the loop
\* over normal_segments
ShaSaveSegment ==
    /\ img_pc = "segments"
    /\ sv.written < Len(get_non_irom_segments(image))
    /\ LET segment == get_non_irom_segments(image)[sv.written + 1]
           patched == maybe_patch_segment_data(image, RLen(f.data), segment.data)
       IN IF patched.err # "none"
            THEN /\ img_pc' = "raised"
                 /\ sv' = [sv EXCEPT !.error = patched.err]
                 /\ UNCHANGED f
            ELSE /\ f' = [f EXCEPT !.data = save_segment(@, [segment EXCEPT
                                                              !.data = patched.data])]
                 /\ sv' = [sv EXCEPT !.written = @ + 1,
                                     !.checksum = checksum(patched.data, @)]
                 /\ UNCHANGED img_pc
    /\ UNCHANGED <<image, loaded>>
    /\ UNCHANGED notImg

\* line 2337: append_checksum, and the file is closed
ShaSaveFinish ==
    /\ img_pc = "segments"
    /\ sv.written = Len(get_non_irom_segments(image))
    /\ f' = [f EXCEPT !.data = append_checksum(@, sv.checksum)]
    /\ img_pc' = "saved"
    /\ UNCHANGED <<image, sv, loaded>>
    /\ UNCHANGED notImg

(***************************************************************************)
(* merge_adjacent_segments, pass by pass                                   *)
(***************************************************************************)
MaxMergeSegments == 3

MapRange(lo, hi, name) == [lo |-> lo, hi |-> hi, name |-> name]

\* MEMORY_MAP of ESP8266ROM (lines 1183-1186) and of ESP32ROM (lines
\* 1360-1374)
MEMORY_MAP(rom) ==
    IF rom = "ESP8266ROM"
      THEN <<MapRange(1072693248, 1072693264, "DPORT"),
             MapRange(1073643520, 1073741824, "DRAM"),
             MapRange(1074790400, 1074823168, "IRAM"),
             MapRange(1075843088, 1076760592, "IROM")>>
      ELSE <<MapRange(0, 65536, "PADDING"),
             MapRange(1061158912, 1065353216, "DROM"),
             MapRange(1065353216, 1069547520, "EXTRAM_DATA"),
             MapRange(1073217536, 1073225728, "RTC_DRAM"),
             MapRange(1073283072, 1073741824, "BYTE_ACCESSIBLE"),
             MapRange(1073405952, 1073741824, "DRAM"),
             MapRange(1073610752, 1073741820, "DIRAM_DRAM"),
             MapRange(1073741824, 1074200576, "IROM"),
             MapRange(1074200576, 1074233344, "CACHE_PRO"),
             MapRange(1074233344, 1074266112, "CACHE_APP"),
             MapRange(1074266112, 1074397184, "IRAM"),
             MapRange(1074397184, 1074528252, "DIRAM_IRAM"),
             MapRange(1074528256, 1074536448, "RTC_IRAM"),
             MapRange(1074593792, 1077936128, "IROM"),
             MapRange(1342177280, 1342185472, "RTC_DATA")>>

\* ImageSegment.get_memory_type, line 2131: the names of the ranges that
\* hold the segment's start address, in the order of the map
get_memory_type(segment, cls) ==
    LET ranges == SelectSeq(MEMORY_MAP(ROM_LOADER(cls)),
                            LAMBDA r : r.lo <= segment.addr /\ segment.addr < r.hi)
    IN [k \in 1..Len(ranges) |-> ranges[k].name]

\* a test that merges across gaps
MergesAcrossGaps(cls, elem, next_elem) ==
    /\ get_memory_type(elem, cls) = get_memory_type(next_elem, cls)
    /\ elem.include_in_checksum = next_elem.include_in_checksum

\* merge_adjacent_segments, lines 2273-2275: the test of one pass
Merges(cls, elem, next_elem) ==
    /\ get_memory_type(elem, cls) = get_memory_type(next_elem, cls)
    /\ elem.include_in_checksum = next_elem.include_in_checksum
    /\ next_elem.addr = elem.addr + RLen(elem.data)

MergeSegment(addr, b, n, in_checksum) ==
    [ImageSegment(addr, Run(b, n), NoOffs) EXCEPT !.include_in_checksum = in_checksum]

\* the segments of the images: runs that touch, runs with a gap, a run that
\* touches the one before but starts another memory type, one that is left
\* out of the checksum
MergeMenu(cls) ==
    IF cls = "ESP8266ROMFirmwareImage"
      THEN {MergeSegment(1073643520, 161, 16, TRUE), MergeSegment(1073643536, 162, 16, TRUE),
            MergeSegment(1073643536, 163, 16, FALSE), MergeSegment(1073643584, 164, 16, TRUE),
            MergeSegment(1074790400, 165, 8, TRUE)}
      ELSE {MergeSegment(1073610720, 161, 16, TRUE), MergeSegment(1073610736, 162, 16, TRUE),
            MergeSegment(1073610736, 163, 16, FALSE), MergeSegment(1073610752, 164, 16, TRUE),
            MergeSegment(1073610784, 165, 16, TRUE), MergeSegment(1074266112, 166, 8, TRUE)}

\* no two segments of the list hold the same address
Disjoint(segments) ==
    \A i \in 1..Len(segments), j \in 1..Len(segments) :
        i < j => \/ segments[i].addr + RLen(segments[i].data) <= segments[j].addr
                 \/ segments[j].addr + RLen(segments[j].data) <= segments[i].addr

\* image.merge_adjacent_segments() is about to run (elf2image, line 3397):
\* the sections of an ELF, in any order
MergeInit ==
    /\ img_pc = "merge"
    /\ \E cls \in {"ESP8266ROMFirmwareImage", "ESP32FirmwareImage"}, n \in 0..MaxMergeSegments :
         image \in { [cls |-> cls, segments |-> s] : s \in [1..n -> MergeMenu(cls)] }
    /\ Disjoint(image.segments)
    /\ f = NoFile
    /\ sv = [i |-> 0, segments |-> <<>>, before |-> image.segments]
    /\ loaded = NotLoaded

\* lines 2263-2266: nothing to merge, or the loop starts at the last segment
MergeBegin ==
    /\ img_pc = "merge"
    /\ IF image.segments = <<>>
         THEN img_pc' = "merged" /\ UNCHANGED sv
         ELSE img_pc' = "merging" /\ sv' = [sv EXCEPT !.i = Len(image.segments)]
    /\ UNCHANGED <<image, f, loaded>>
    /\ UNCHANGED notImg

\* lines 2268-2286: one pass of the loop; elem is self.segments[i - 1] and
\* its data grows in place
MergePass ==
    /\ img_pc = "merging"
    /\ sv.i > 1
    /\ LET elem == image.segments[sv.i - 1]
           next_elem == image.segments[sv.i]
       IN IF Merges(image.cls, elem, next_elem)
            THEN /\ image' = [image EXCEPT
                                !.segments[sv.i - 1].data = RCat(elem.data, next_elem.data)]
                 /\ sv' = [sv EXCEPT !.i = @ - 1]
            ELSE /\ sv' = [sv EXCEPT !.i = @ - 1, !.segments = <<next_elem>> \o @]
                 /\ UNCHANGED image
    /\ UNCHANGED <<img_pc, f, loaded>>
    /\ UNCHANGED notImg

\* lines 2288-2295: the first segment is put in front and the list assigned
MergeFinish ==
    /\ img_pc = "merging"
    /\ sv.i = 1
    /\ image' = [image EXCEPT !.segments = <<image.segments[1]>> \o sv.segments]
    /\ sv' = [sv EXCEPT !.i = 0]
    /\ img_pc' = "merged"
    /\ UNCHANGED <<f, loaded>>
    /\ UNCHANGED notImg

(***************************************************************************)
(* Specifications                                                          *)
(***************************************************************************)
SlipIdle ==
    /\ slip_pc = "idle"
    /\ packet = <<>>
    /\ rx_wire = <<>>
    /\ rx_buf = <<>>
    /\ read_bytes = <<>>
    /\ partial_packet = NoPacket
    /\ in_escape = FALSE
    /\ packets = <<>>
    /\ reader_error = "none"

ConnIdle ==
    /\ pc = "idle"
    /\ args = None
    /\ files = <<>>
    /\ esp = None
    /\ port_open = FALSE
    /\ secure_download_mode = FALSE
    /\ sync_stub_detected = FALSE
    /\ cmd = None
    /\ reply = None
    /\ last_req = None
    /\ sent = <<>>
    /\ parsed = None
    /\ loop = None
    /\ sync_replies = <<>>
    /\ verified = <<>>
    /\ target_chip = None
    /\ target_stub = FALSE
    /\ target_secure = FALSE
    /\ faults = 0

ImgIdle ==
    /\ img_pc = "idle"
    /\ image = None
    /\ f = None
    /\ sv = None
    /\ loaded = None

EraseIdle ==
    /\ er_pc = "idle"
    /\ er_cls = None
    /\ er_offset = 0
    /\ er_size = 0
    /\ er_result = 0

LoaderIdle ==
    /\ ld_pc = "idle"
    /\ ld_self = None
    /\ ld_before = None
    /\ ld_call = None
    /\ ld_cmd = None
    /\ ld_written = <<>>
    /\ ld_flushed = 0
    /\ ld_reply = None
    /\ ld_data = 0
    /\ ld_result = None

UploadIdle ==
    /\ up_pc = "idle"
    /\ up_self = None
    /\ up_call = None
    /\ up_loop = None
    /\ up_sent = <<>>
    /\ up_reader = "running"
    /\ up_ignored = "none"
    /\ up_packet = "none"
    /\ up_reply = None
    /\ up_result = None

InitSlip == SlipInit /\ ConnIdle /\ ImgIdle /\ EraseIdle /\ LoaderIdle /\ UploadIdle

SlipNext == SlipWrite \/ SlipArrive \/ SlipReadChunk \/ SlipByte

SpecSlip == InitSlip /\ [][SlipNext]_vars

InitReader == ReaderInit /\ ConnIdle /\ ImgIdle /\ EraseIdle /\ LoaderIdle /\ UploadIdle

ReaderNext == SlipArrive \/ SlipReadChunk \/ SlipByte

SpecReader == InitReader /\ [][ReaderNext]_vars

Init == SlipIdle /\ ConnInit /\ ImgIdle /\ EraseIdle /\ LoaderIdle /\ UploadIdle

Next ==
    \/ CmdWrite \/ CmdRead
    \/ Open \/ ConnectAttempt \/ SyncTry \/ SyncReply \/ DrainReply
    \/ ReadMagic \/ MagicReply \/ PostConnectReply
    \/ ChipInfo \/ InfoReply
    \/ RunStub \/ MemBeginReply \/ MemBlockReply \/ MemEndReply \/ StubHello
    \/ ChangeBaud \/ BaudReply \/ SpiAttach \/ AttachReply
    \/ WriteFlash \/ EfuseReply \/ NextFile \/ BeginReply \/ BlockReply
    \/ FlushReply \/ Md5Reply \/ Leaving \/ LeaveBeginReply \/ LeaveEndReply
    \/ After \/ ResetBeginReply \/ ResetEndReply \/ ResetRunSent
    \/ Close \/ Exit

Spec == Init /\ [][Next]_vars

InitImage == SlipIdle /\ ConnIdle /\ ImgInit /\ EraseIdle /\ LoaderIdle /\ UploadIdle

ImageNext ==
    \/ ImageVerify \/ SaveV1 \/ SaveV2
    \/ SaveBegin \/ SaveFlashStep \/ SaveFinish
    \/ StoreFile \/ Load

SpecImage == InitImage /\ [][ImageNext]_vars

InitErase == SlipIdle /\ ConnIdle /\ ImgIdle /\ EraseInit /\ LoaderIdle /\ UploadIdle

EraseNext == GetEraseSize

SpecErase == InitErase /\ [][EraseNext]_vars

InitLoader == SlipIdle /\ ConnIdle /\ ImgIdle /\ EraseIdle /\ LoaderInit /\ UploadIdle

LoaderNext == Invoke \/ ReadPacket \/ ReadData \/ ReadDigest

SpecLoader == InitLoader /\ [][LoaderNext]_vars

InitUpload == SlipIdle /\ ConnIdle /\ ImgIdle /\ EraseIdle /\ LoaderIdle /\ UploadInit

UploadNext ==
    UpInvoke \/ UpMemBeginReply \/ UpMemBlockReply \/ UpMemEndReply \/ UpHello

SpecUpload == InitUpload /\ [][UploadNext]_vars

InitWrite == SlipIdle /\ ConnIdle /\ ImgIdle /\ EraseIdle /\ LoaderIdle /\ WriteInit

WriteNext ==
    WfFile \/ WfBeginReply \/ WfBlockReply \/ WfFlushReply \/ WfMd5Reply

SpecWrite == InitWrite /\ [][WriteNext]_vars

InitEncrypt == SlipIdle /\ ConnIdle /\ ImgIdle /\ EraseIdle /\ LoaderIdle /\ EncryptInit

EncryptNext == EncChecks \/ WriteNext

SpecEncrypt == InitEncrypt /\ [][EncryptNext]_vars

InitRead == SlipIdle /\ ConnIdle /\ ImgIdle /\ EraseIdle /\ LoaderIdle /\ ReadInit

ReadNext == RfInvoke \/ RfBeginReply \/ RfData \/ RfDigest

SpecRead == InitRead /\ [][ReadNext]_vars

InitBaud == SlipIdle /\ ConnIdle /\ ImgIdle /\ EraseIdle /\ LoaderIdle /\ BaudInit

BaudNext == CbInvoke \/ CbReply

SpecBaud == InitBaud /\ [][BaudNext]_vars
InitSpi == SlipIdle /\ ConnIdle /\ ImgIdle /\ EraseIdle /\ LoaderIdle /\ SpiInit

SpiNext == SpiInvoke \/ SpiAccess

SpecSpi == InitSpi /\ [][SpiNext]_vars
InitSha == SlipIdle /\ ConnIdle /\ ShaInit /\ EraseIdle /\ LoaderIdle /\ UploadIdle

ShaNext == ShaSaveHeader \/ ShaSaveSegment \/ ShaSaveFinish

SpecSha == InitSha /\ [][ShaNext]_vars

InitMerge == SlipIdle /\ ConnIdle /\ MergeInit /\ EraseIdle /\ LoaderIdle /\ UploadIdle

MergeNext == MergeBegin \/ MergePass \/ MergeFinish

SpecMerge == InitMerge /\ [][MergeNext]_vars

BlockOps == {"FLASH_DATA", "FLASH_DEFL_DATA", "FLASH_ENCRYPT_DATA"}

Md5Applies(i) ==
    /\ files[i].size > 0
    /\ ~files[i].encrypted
    /\ ~secure_download_mode
    /\ StubOrEsp32(esp)

\* C2: MD5 verification.  When write_flash has returned, every non-empty file
\* that was written unencrypted, by a loader that is not in secure download
\* mode and is a stub or an ESP32-family ROM, has had its flash MD5 reported
\* equal to the MD5 of the bytes written; for the other files (encrypted,
\* secure download mode, ESP8266 ROM) no MD5 was compared.  The MD5 request
\* of a file is written after all of the file's blocks.
C2_Md5Verified ==
    /\ pc = "after" =>
          \A i \in 1..Len(files) :
             IF Md5Applies(i)
               THEN i \in DOMAIN verified /\ verified[i] = HexDigest(1)
               ELSE i \notin DOMAIN verified
    /\ pc = "md5" /\ cmd.state = "await" =>
          /\ sent[Len(sent)].op = "SPI_FLASH_MD5"
          /\ Cardinality({k \in 1..Len(sent) : sent[k].op \in BlockOps})
               = files[loop.file].size

C2_Witness ==
    /\ pc = "after"
    /\ IS_STUB(esp)
    /\ Len(files) = 2
    /\ DOMAIN verified = {2}
    /\ verified[2] = HexDigest(1)

\* C2 as stated: after a successful write_flash every non-empty file has been
\* verified by MD5, for every loader and every write mode.
C2_EveryFileVerified ==
    pc = "after" =>
       \A i \in 1..Len(files) :
          files[i].size > 0 => i \in DOMAIN verified /\ verified[i] = HexDigest(1)

\* C3: requests are serialized.  A request is written only when the
\* command() call that wrote the previous request has ended, by reading the
\* response or by raising (no response before the timeout), or when the
\* previous request was sent with wait_response=false; the only request sent
\* with wait_response=false is RUN_USER_CODE (MEM_END is always awaited).
C3_Serialized ==
    [][Len(sent') = Len(sent) + 1 =>
         /\ last_req.ended \/ ~last_req.wait
         /\ ~sent'[Len(sent')].wait => sent'[Len(sent')].op = "RUN_USER_CODE"]_vars

C3_Witness ==
    /\ pc = "close"
    /\ last_req.op = "RUN_USER_CODE"
    /\ ~last_req.wait
    /\ ~last_req.answered

\* C3 as stated: a request is written only after the response to the previous
\* request has been read, unless that one was sent with wait_response=false;
\* MEM_END in ROM mode and RUN_USER_CODE are the requests sent that way.
C3_StrictlySerialized ==
    [][Len(sent') = Len(sent) + 1 =>
         /\ last_req.answered \/ ~last_req.wait
         /\ ~sent'[Len(sent')].wait =>
               sent'[Len(sent')].op \in {"MEM_END", "RUN_USER_CODE"}
         /\ sent'[Len(sent')].op = "MEM_END" /\ ~IS_STUB(esp) =>
               ~sent'[Len(sent')].wait]_vars

\* C4: the serial port is released on every exit path: when main() has
\* returned and when an error has ended the session, the port is closed.
C4_PortReleased == pc \in {"done", "exited"} => ~port_open

\* C5: sync detection.  After a sync() that completed, sync_stub_detected is
\* true exactly when the SYNC reply and the 7 drained replies all carried
\* value 0, whatever the flag was before the sync.
C5_SyncDetection ==
    pc = "connected" =>
       /\ Len(sync_replies) = 8
       /\ sync_stub_detected <=> \A i \in 1..8 : sync_replies[i] = Zero

C5_Witness ==
    /\ pc = "connected"
    /\ loop.before
    /\ ~sync_stub_detected
    /\ Cardinality({i \in 1..8 : sync_replies[i] # Zero}) = 1

StatusLenRule(cls, len) ==
    /\ IsInstance(cls, "ESP8266ROM") \/ IS_STUB(cls) => len = 2
    /\ len = 4 <=> IsInstance(cls, "ESP32ROM") /\ ~IS_STUB(cls)

\* C6: status-trailer length.  The loader's status length is 2 when it is an
\* ESP8266 loader or any stub loader and 4 exactly when it is an ESP32-family
\* ROM loader; the same holds of the length every check_command parsed with,
\* so that a stub loader parses with 2.
C6_StatusLength ==
    /\ esp \in Classes => StatusLenRule(esp, STATUS_BYTES_LENGTH(esp))
    /\ parsed.cls \in Classes => StatusLenRule(parsed.cls, parsed.len)

C6_Witness ==
    /\ pc = "leaving"
    /\ ~sync_stub_detected
    /\ esp = "ESP32StubLoader"
    /\ parsed = [cls |-> "ESP32StubLoader", len |-> 2]

\* C1: framing round-trip.  Once the reader has consumed everything that
\* write(packet) put on the line (it ends by timing out waiting for a next
\* header), it has yielded exactly one packet and that packet equals the
\* bytes given to write; the reader never raises a framing error on the way.
C1_FramingRoundTrip ==
    /\ reader_error \in {"none", "timeout_header"}
    /\ slip_pc = "done" => packets = <<packet>>
    /\ Len(packets) <= 1
    /\ packets # <<>> => packets[1] = packet

C1_Witness ==
    /\ slip_pc = "done"
    /\ packet = <<SLIP_END, SLIP_ESC, 0>>
    /\ packets = <<packet>>

(***************************************************************************)
(* Claims about the firmware images (SpecImage)                            *)
(***************************************************************************)
\* a segment as the loader found it in the file: when its load address is
\* flash-mapped, its first data byte lies at the same offset in a 64KB page
\* of the file as its load address does in a 64KB page of memory
FlashAligned(cls, segment) ==
    is_flash_addr(cls, segment.addr) =>
        (segment.file_offs + SEG_HEADER_LEN) % IROM_ALIGN = segment.addr % IROM_ALIGN

\* the file as save() left it has been loaded back
LoadedBack == img_pc = "loaded" /\ sv.altered = "none" /\ loaded.state = "ok"

\* C7: flash-mapping alignment.  In every image the newer-variant save
\* produces, every segment whose load address lies in the chip's IROM or
\* DROM range has its first data byte at a file offset congruent to the
\* load address modulo 0x10000.
C7_FlashMappingAlignment ==
    LoadedBack /\ image.cls \in Esp32Images =>
        \A i \in 1..Len(loaded.segments) : FlashAligned(image.cls, loaded.segments[i])

\* the offset of the common header (the one with ESP_IMAGE_MAGIC) in the
\* file save() writes
CommonHeaderOffset ==
    IF image.cls # "ESP8266V2FirmwareImage" THEN 0
    ELSE IF irom_segments(image) = <<>> THEN 8
    ELSE 8 + SEG_HEADER_LEN + RLen(pad_to(irom_segments(image)[1].data, 16, 0))

\* C8: segment count bound.  The segment count in the header of a produced
\* image never exceeds 16.
C8_SegmentCountBound ==
    img_pc = "saved" => RByte(f.data, CommonHeaderOffset + 1) <= MAX_SEGMENTS

\* the load addresses and data of a list of segments
AddrData(segments) ==
    [i \in 1..Len(segments) |-> [addr |-> segments[i].addr, data |-> segments[i].data]]

\* the loaded image has the entry point, flash mode, flash size/frequency
\* byte and (newer variant) digest setting of the image that was saved
SameHeader ==
    /\ loaded.entrypoint = image.entrypoint
    /\ loaded.flash_mode = image.flash_mode
    /\ loaded.flash_size_freq = image.flash_size_freq
    /\ image.cls \in Esp32Images => loaded.append_digest = image.append_digest

\* the image has no flash-mapped (ESP32) or IROM (ESP8266) segment
NoFlashSegments ==
    IF image.cls \in Esp32Images
      THEN \A i \in 1..Len(image.segments) :
               ~is_flash_addr(image.cls, image.segments[i].addr)
      ELSE irom_segments(image) = <<>>

\* save() writes the segments of the image as they are, in their order
SavedAsGiven ==
    /\ NoFlashSegments
    /\ image.cls # "ESP8266V2FirmwareImage"
    /\ image.cls \in Esp32Images => SortedByAddr(image.segments) = image.segments

MagicAsExpected ==
    RByte(f.data, 0) = IF loaded.cls = "ESP8266V2FirmwareImage"
                         THEN IMAGE_V2_MAGIC ELSE ESP_IMAGE_MAGIC

\* C10: verification on parse.  Loading fails when the magic byte is wrong,
\* when there are more than 16 segments, when the stored checksum differs
\* from the XOR recomputed over the segment data, and, when append_digest
\* is set, when the stored digest differs from the SHA-256 recomputed over
\* the image: a file that loads has none of these faults.
C10_VerificationOnParse ==
    img_pc = "loaded" /\ loaded.state = "ok" =>
        /\ MagicAsExpected
        /\ Len(loaded.segments) <= MAX_SEGMENTS
        /\ loaded.checksum = calculate_checksum(loaded.segments, ESP_CHECKSUM_MAGIC)
        /\ loaded.append_digest => loaded.stored_digest = loaded.calc_digest

(***************************************************************************)
(* Erase sizing                                                            *)
(***************************************************************************)
CeilDiv(a, b) == CHOOSE k \in 0..a : k * b >= a /\ (k - 1) * b < a

\* the erase size stated for the ESP8266 ROM loader
StatedEraseSize(offset, size) ==
    LET n == CeilDiv(size, 4096)
        head == Min(16 - ((offset \div 4096) % 16), n)
    IN IF n < 2 * head THEN CeilDiv(n, 2) * 4096 ELSE (n - head) * 4096

EraseCall(cls, offset, size) ==
    er_pc = "done" /\ er_cls = cls /\ er_offset = offset /\ er_size = size

\* C11: for the ESP8266 ROM loader and a sector-aligned offset,
\* get_erase_size returns ceil(num_sectors/2)*0x1000 when num_sectors is
\* below 2*head_sectors and (num_sectors - head_sectors)*0x1000 otherwise,
\* with num_sectors = ceil(size/0x1000) and head_sectors = min(16 -
\* (start_sector mod 16), num_sectors); (0x1000,0x1000) gives 0x1000,
\* (0x1000,0xF000) gives 0x8000, (0x0,0x1000) gives 0x1000; every stub loader
\* and every newer ROM loader returns exactly size.
C11_EraseSizing ==
    er_pc = "done" =>
        /\ (er_cls = "ESP8266ROM" /\ er_offset % 4096 = 0)
              => er_result = StatedEraseSize(er_offset, er_size)
        /\ EraseCall("ESP8266ROM", 4096, 4096) => er_result = 4096
        /\ EraseCall("ESP8266ROM", 4096, 61440) => er_result = 32768
        /\ EraseCall("ESP8266ROM", 0, 4096) => er_result = 4096
        /\ er_cls # "ESP8266ROM" => er_result = er_size

C11_Witness ==
    \/ EraseCall("ESP8266ROM", 4096, 61440) /\ er_result = 32768
    \/ EraseCall("ESP8266StubLoader", 4096, 61440) /\ er_result = 61440

\* C12: for the ESP8266 ROM loader, offset 0x4000 and size 0x10000 make 16
\* sectors starting at sector 4 with head_sectors 12; 16 is below 2*12, the
\* half-round path is taken and the erase size is 0x8000.
C12_HalfRoundAtSector4 ==
    EraseCall("ESP8266ROM", 16384, 65536) =>
        /\ num_sectors(er_size) = 16
        /\ start_sector(er_offset) = 4
        /\ head_sectors(er_offset, er_size) = 12
        /\ num_sectors(er_size) < 2 * head_sectors(er_offset, er_size)
        /\ er_result = 32768

C12_Witness == EraseCall("ESP8266ROM", 16384, 65536) /\ er_result = 32768

\* C12 as stated: the erase size for offset 0x4000, size 0x10000 is 0x10000
\* and the half-round path is not taken.
C12_NoHalfRoundAtSector4 ==
    EraseCall("ESP8266ROM", 16384, 65536) =>
        /\ er_result = 65536
        /\ ~(num_sectors(er_size) < 2 * head_sectors(er_offset, er_size))
(***************************************************************************)
(* The bytes of a saved version 1 image                                    *)
(***************************************************************************)
\* the byte values of a byte string, in order
Expand(x) == [i \in 1..RLen(x) |-> RByte(x, i - 1)]

Zeros(n) == [i \in 1..n |-> 0]

\* entry 0x40100000, flash_mode 0x02, size_freq 0x20 and one segment at
\* 0x40100000 holding eight zero bytes
EightZeroImage ==
    /\ image.cls = "ESP8266ROMFirmwareImage"
    /\ image.entrypoint = 1074790400
    /\ image.flash_mode = 2
    /\ image.flash_size_freq = 32
    /\ image.segments = <<Section(1074790400, 0, 8)>>

HeaderAndSegment ==
    <<233, 1, 2, 32, 0, 0, 16, 64, 0, 0, 16, 64, 8, 0, 0, 0>> \o Zeros(8)

\* C13: saving a version 1 image with entry 0x40100000, flash_mode 0x02,
\* size_freq 0x20 and one segment at 0x40100000 of eight zero bytes writes
\* E9 01 02 20 00 00 10 40 00 00 10 40 08 00 00 00, the 8 zero data bytes,
\* then 7 bytes of 0x00 padding, then the checksum byte 0xEF as the last
\* (32nd) byte of the file.
C13_SavedBytes ==
    (img_pc = "saved" /\ EightZeroImage) =>
        Expand(f.data) = HeaderAndSegment \o Zeros(7) \o <<239>>

C13_Witness ==
    img_pc = "saved" /\ EightZeroImage /\ RLen(f.data) = 32 /\ RByte(f.data, 31) = 239

\* C13 as stated: 15 bytes of 0x00 padding between the data and the checksum
C13_SavedBytesAsGiven ==
    (img_pc = "saved" /\ EightZeroImage) =>
        Expand(f.data) = HeaderAndSegment \o Zeros(15) \o <<239>>
(***************************************************************************)
(* Chip detection                                                          *)
(***************************************************************************)
\* the known variants whose detect magic equals the word read
MagicMatches(v) == {c \in RomClasses : CHIP_DETECT_MAGIC_VALUE(c) = v}

\* C14: the detect-magic values of the known variants are pairwise
\* distinct; when detect_chip has read a word from 0x40001000 it selects the
\* variant whose detect magic equals the word (its ROM loader, or its stub
\* loader when the sync handshake saw a stub), and raises FatalError without
\* selecting a variant when no magic equals the word.
C14_DetectMagic ==
    [][(pc = "magic" /\ pc' # "magic" /\ args.chip = "auto"
            /\ ReadReg(reply).err = "none") =>
         LET v == ReadReg(reply).val
         IN /\ \A a, b \in RomClasses :
                  CHIP_DETECT_MAGIC_VALUE(a) = CHIP_DETECT_MAGIC_VALUE(b) => a = b
            /\ \A c \in MagicMatches(v) :
                  /\ pc' # "raised"
                  /\ esp' = IF sync_stub_detected THEN STUB_CLASS(c) ELSE c
            /\ MagicMatches(v) = {} =>
                  pc' = "raised" /\ loop'.error = "FatalError" /\ esp' = esp]_vars

C14_Witness ==
    /\ args.chip = "auto"
    /\ pc = "chip_info"
    /\ reply = OkReply(<<26913, 20591>>, Trailer(0, 0))
    /\ esp = "ESP32C3ROM"
(***************************************************************************)
(* Encrypted writes                                                        *)
(***************************************************************************)
\* C15: FLASH_ENCRYPT_DATA is sent only while the loader is a stub loader;
\* on a connection to the ROM of an ESP32-family chip the blocks of an
\* encrypted file are sent as FLASH_DATA after a FLASH_BEGIN whose
\* encryption flag is set.
C15_EncryptOpcodeOnlyInStub ==
    \A i \in 1..Len(sent) :
        sent[i].op \in BlockOps =>
           /\ sent[i].op = "FLASH_ENCRYPT_DATA" => IS_STUB(esp)
           /\ (~IS_STUB(esp) /\ IsInstance(esp, "ESP32ROM")
                    /\ files[loop.file].encrypted) =>
                 /\ sent[i].op = "FLASH_DATA"
                 /\ sent[1].op = "FLASH_BEGIN"
                 /\ sent[1].arg = "1"
(***************************************************************************)
(* Capability gating                                                       *)
(***************************************************************************)
\* the call failed with the not-supported error, wrote nothing, flushed
\* nothing and left the loader object (port timeout, baud rate, flags) as it
\* was; it never got as far as reading
Refused ==
    /\ ld_pc \in {"ready", "done"}
    /\ ld_pc = "done" => ld_result.kind = "NotImplementedInROMError"
    /\ ld_written = <<>>
    /\ ld_flushed = 0
    /\ ld_self = ld_before

\* C16: erase_flash and erase_region on a ROM loader, read_flash on the
\* ESP8266 ROM loader, and flash_defl_begin, flash_defl_block,
\* flash_defl_finish, flash_md5sum and change_baud on the ESP8266 ROM loader
\* fail at once with NotImplementedInROMError: nothing is written to the
\* port and baud rate, flags and read timeout stay as they were.
C16_CapabilityGating ==
    ld_pc # "idle" =>
        /\ (ld_call.name \in {"erase_flash", "erase_region"} /\ ~IS_STUB(ld_self.cls))
              => Refused
        /\ (ld_call.name = "read_flash" /\ ld_self.cls = "ESP8266ROM") => Refused
        /\ (ld_call.name \in {"flash_defl_begin", "flash_defl_block", "flash_defl_finish",
                               "flash_md5sum", "change_baud"}
                /\ ld_self.cls = "ESP8266ROM") => Refused

C16_Witness ==
    /\ ld_pc = "done"
    /\ ld_call.name = "erase_region"
    /\ ld_self.cls = "ESP32S2ROM"
    /\ ld_result.kind = "NotImplementedInROMError"

\* C16 as stated: read_flash, like erase_flash and erase_region, is refused
\* on every ROM loader.
C16_ReadFlashRefusedOnEveryRom ==
    (ld_pc # "idle" /\ ld_call.name \in {"erase_flash", "erase_region", "read_flash"}
        /\ ~IS_STUB(ld_self.cls)) => Refused
(***************************************************************************)
(* command(): one request, up to 100 responses                             *)
(***************************************************************************)
\* the requests among what was written (read_flash also writes the running
\* byte count after every data packet)
Requests(w) == SelectSeq(w, LAMBDA x : x # "len(data)")

\* the response packets that do not carry the op awaited
Mismatched == {p \in Packets : p.kind = "response" /\ ~p.match}

\* the command() call in progress ends in this step
CommandEnds == ld_pc = "reading" /\ ~ld_cmd'.active

GivesUp == Out("FatalError", "Response doesn't match request", Zero, <<>>)

TimedOut == Out("FatalError", "Timed out waiting for packet", Zero, <<>>)

\* the step ends command() by returning a response that carries the op
\* awaited (any response when no op is awaited), by a read timeout, or after
\* the 100th response read without a match
ReturnsMatchOrGivesUp ==
    \/ \E p \in Packets :
          /\ p.kind = "response"
          /\ p.match \/ ld_cmd.plan.op = "None"
          /\ IF ld_call.name = "command"
                THEN ld_result' = Out("return", "val, data", p.val, p.data)
                ELSE ld_pc' \in {"data", "digest"}
                     \/ ld_result' = AfterCommand(ld_self.cls, ld_call, ld_cmd.plan,
                                                   p.val, p.data)
    \/ ld_result' = TimedOut
    \/ ld_result' = GivesUp /\ ld_cmd.retry = 99

C18_MismatchDiscardedOrUnsupported ==
    [][(CommandEnds /\ ld_cmd.plan.op # "None") =>
          \/ ReturnsMatchOrGivesUp
          \/ /\ ld_result'.kind = "UnsupportedCommandError"
             /\ ld_flushed' = ld_flushed + 1]_vars
(***************************************************************************)
(* check_command                                                           *)
(***************************************************************************)
\* the last n items of s
LastN(s, n) == [i \in 1..n |-> s[Len(s) - n + i]]

\* C19: when command() has returned a value and a body to check_command and
\* status_len is the loader's status length: a body shorter than status_len
\* fails with the status-length FatalError; otherwise a nonzero first byte of
\* the last status_len bytes fails with the FatalError carrying those bytes;
\* otherwise the bytes before the trailer are returned when there is at
\* least one, and the value field when the body is the trailer only.
C19_CheckCommandOutcome ==
    (ld_pc = "done" /\ ld_call.name = "check_command" /\ ld_reply.got) =>
        LET n == STATUS_BYTES_LENGTH(ld_self.cls)
            body == ld_reply.data
        IN IF Len(body) < n
             THEN /\ ld_result.kind = "FatalError"
                  /\ ld_result.msg = "Only got byte status response"
           ELSE IF LastN(body, n)[1] # 0
             THEN /\ ld_result.kind = "FatalError"
                  /\ ld_result.msg = "WithResult"
                  /\ ld_result.data = LastN(body, n)
           ELSE IF Len(body) - n >= 1
             THEN /\ ld_result.kind = "return"
                  /\ ld_result.msg = "data"
                  /\ ld_result.data = [i \in 1..(Len(body) - n) |-> body[i]]
           ELSE /\ ld_result.kind = "return"
                /\ ld_result.msg = "val"
                /\ ld_result.val = ld_reply.val

C19_Witness ==
    /\ ld_pc = "done"
    /\ ld_call.name = "check_command"
    /\ ld_self.cls = "ESP32C3StubLoader"
    /\ ld_reply = ReturnedToCaller(<<1, 2>>, <<0, 0>>)
    /\ ld_result = Out("return", "val", <<1, 2>>, <<>>)
(***************************************************************************)
(* The port read timeout around command()                                  *)
(***************************************************************************)
\* C20: while command() reads, the port read timeout is min(timeout, 240 s)
\* for the timeout the call was given; once command() has been left, on any
\* path (matching response, wait_response false, read timeout,
\* UnsupportedCommandError, 100 responses without a match, or any other
\* exception), the port read timeout is the one from before the call.
C20_ReadTimeout ==
    /\ ld_pc = "reading" =>
          /\ ld_self.timeout = Min(ld_cmd.plan.timeout, 240000)
          /\ ld_cmd.saved_timeout = ld_before.timeout
    /\ ld_pc \in {"data", "digest", "done"} => ld_self.timeout = ld_before.timeout

C20_Witness ==
    /\ ld_pc = "done"
    /\ ld_call = Gated("erase_region", 0, 16777216)
    /\ ld_written = <<"ERASE_REGION">>
    /\ ld_result.kind = "UnsupportedCommandError"
    /\ ld_before.timeout = DEFAULT_TIMEOUT
    /\ ld_self.timeout = DEFAULT_TIMEOUT
(***************************************************************************)
(* Secure download mode at connect                                         *)
(***************************************************************************)
\* the read of the magic register has raised UnsupportedCommandError and
\* detect_chip or connect goes on from it
MagicReadUnsupported ==
    /\ pc = "magic"
    /\ pc' # "magic"
    /\ reply.kind = "UnsupportedCommandError"

\* C21: when the read of the magic register raises UnsupportedCommandError,
\* connect() of a loader whose chip the caller named sets secure_download_mode
\* and goes on without a wrong-chip check and without raising; detect_chip
\* (chip "auto") raises FatalError instead, selects no variant and leaves
\* secure_download_mode clear.
C21_SecureDownloadMode ==
    [][MagicReadUnsupported =>
         IF args.chip = "auto"
           THEN /\ pc' = "raised"
                /\ loop'.error = "FatalError"
                /\ ~secure_download_mode'
                /\ esp' = esp
           ELSE /\ secure_download_mode'
                /\ pc' \in {"post_connect", "chip_info"}
                /\ esp' = esp]_vars

C21_Witness ==
    /\ args.chip = "esp32c3"
    /\ target_chip = "ESP32S2ROM"
    /\ reply.kind = "UnsupportedCommandError"
    /\ last_req.op = "READ_REG"
    /\ secure_download_mode
    /\ pc = "chip_info"

\* the statement without the distinction between detect_chip and connect
C21_SecureModeAlsoWhenDetecting ==
    [][MagicReadUnsupported =>
         secure_download_mode' /\ pc' # "raised"]_vars
(***************************************************************************)
(* The chip sanity check of connect()                                      *)
(***************************************************************************)
\* C22: when connect() of a loader whose chip the caller named has synced
\* and read the magic register, it goes on to _post_connect if the word is
\* the magic of the named variant, raises FatalError (wrong --chip argument)
\* if the word is the magic of another known variant, and only warns and
\* goes on if the word is the magic of no known variant.
C22_ChipSanityCheck ==
    [][(pc = "magic" /\ pc' # "magic" /\ args.chip # "auto"
            /\ ReadReg(reply).err = "none") =>
         LET v == ReadReg(reply).val
             goes_on == /\ pc' \in {"post_connect", "chip_info"}
                        /\ esp' = esp
                        /\ ~secure_download_mode'
         IN IF v = CHIP_DETECT_MAGIC_VALUE(esp) THEN goes_on
            ELSE IF MagicMatches(v) # {}
                   THEN pc' = "raised" /\ loop'.error = "FatalError"
            ELSE goes_on]_vars

C22_Witness ==
    /\ args.chip = "esp32c3"
    /\ esp = "ESP32C3ROM"
    /\ target_chip = "unknown"
    /\ last_req.op = "READ_REG"
    /\ reply = OkReply(<<4660, 22136>>, Trailer(0, 0))
    /\ pc = "chip_info"
(***************************************************************************)
(* The attempts of connect()                                               *)
(***************************************************************************)
\* connect() is trying to sync
Syncing == pc \in {"sync_try", "sync", "drain"}

\* C23: connect() with attempt count N (DEFAULT_CONNECT_ATTEMPTS, 7) makes
\* at most N connection attempts in total, the odd ones without and the even
\* ones with the esp32r0 delay, each with at most 5 SYNC requests, and has
\* made at most N when it gives up with FatalError.
C23_AtMostNAttempts ==
    /\ loop.resets <= DEFAULT_CONNECT_ATTEMPTS
    /\ Syncing => /\ loop.delay = (loop.resets % 2 = 0)
                  /\ loop.tries < 5
    /\ pc = "raised" /\ loop.resets > 0 => loop.resets <= DEFAULT_CONNECT_ATTEMPTS
(***************************************************************************)
(* The reset sequence on DTR and RTS                                       *)
(***************************************************************************)
LineState(state) == IF state THEN "asserted" ELSE "released"

\* the states of the two lines after each event of a sequence, with the
\* time in ms since its start; a line not yet set is "unknown"
RECURSIVE Timeline(_, _, _, _)
Timeline(events, t, dtr, rts) ==
    IF events = <<>> THEN <<>>
    ELSE LET e == Head(events)
         IN IF e.do = "sleep" THEN Timeline(Tail(events), t + e.ms, dtr, rts)
            ELSE LET d == IF e.do = "DTR" THEN LineState(e.state) ELSE dtr
                     r == IF e.do = "RTS" THEN LineState(e.state) ELSE rts
                 IN <<[t |-> t, dtr |-> d, rts |-> r]>>
                    \o Timeline(Tail(events), t, d, r)

First(S) == CHOOSE i \in S : \A j \in S : i <= j

\* RTS is asserted with DTR released and stays so for `hold` ms; DTR is
\* asserted before RTS is released and stays asserted until it is released
\* `release` ms after RTS; nothing follows, and both lines end released
ResetTiming(tl, hold, release) ==
    LET n == Len(tl)
        in_reset == {i \in 1..n : tl[i].rts = "asserted" /\ tl[i].dtr = "released"}
        strapped == {i \in 1..n : tl[i].dtr = "asserted"}
        out_of_reset == {i \in 1..n : tl[i].rts = "released"
                                       /\ \E j \in in_reset : j < i}
    IN /\ in_reset # {} /\ strapped # {} /\ out_of_reset # {}
       /\ First(in_reset) < First(strapped)
       /\ \A i \in First(in_reset)..(First(strapped) - 1) : i \in in_reset
       /\ tl[First(strapped)].t - tl[First(in_reset)].t = hold
       /\ First(strapped) < First(out_of_reset)
       /\ tl[First(strapped)].t <= tl[First(out_of_reset)].t
       /\ \A i \in First(strapped)..(n - 1) : i \in strapped
       /\ tl[n].dtr = "released" /\ tl[n].rts = "released"
       /\ tl[n].t - tl[First(out_of_reset)].t = release

\* the control line events of the connection attempt in progress
AttemptTimeline == Timeline(loop.lines, 0, "unknown", "unknown")

\* C24: in default_reset mode, when a connection attempt sends its SYNC
\* requests it has asserted RTS with DTR released and held that for 100 ms
\* (1300 ms in an attempt with the esp32r0 delay), asserted DTR no later than
\* it released RTS, released DTR 50 ms (450 ms with the delay) after RTS,
\* and left both lines released.
C24_ResetSequence ==
    (args.before = "default_reset" /\ Syncing) =>
        ResetTiming(AttemptTimeline, IF loop.delay THEN 1300 ELSE 100,
                    IF loop.delay THEN 450 ELSE 50)

C24_Witness ==
    /\ args.before = "default_reset"
    /\ pc = "sync"
    /\ loop.delay
    /\ last_req.op = "SYNC"
    /\ AttemptTimeline[Len(AttemptTimeline)] = [t |-> 1750, dtr |-> "released", rts |-> "released"]

\* the statement with the times of the attempt without delay for every
\* attempt
C24_ResetSequenceSameTimes ==
    (args.before = "default_reset" /\ Syncing) =>
        ResetTiming(AttemptTimeline, 100, 50)
(***************************************************************************)
(* mem_begin and the resident stub                                         *)
(***************************************************************************)
Max(a, b) == IF a > b THEN a ELSE b

\* the half-open ranges [a, b) and [c, d) have an address in common
Intersects(a, b, c, d) == Max(a, c) < Min(b, d)

\* [load_addr, load_addr + size) has an address in common with the text or
\* the data of the stub of cls
IntersectsStub(cls, size, load_addr) ==
    \E i \in 1..2 : Intersects(load_addr, load_addr + size,
                               StubRanges(cls)[i][1], StubRanges(cls)[i][2])

\* an empty load at an address strictly inside the text or the data
EmptyInsideStub(cls, size, load_addr) ==
    /\ size = 0
    /\ \E i \in 1..2 : StubRanges(cls)[i][1] < load_addr
                       /\ load_addr < StubRanges(cls)[i][2]

\* mem_begin raised FatalError before it wrote anything
OverlapRefused ==
    /\ ld_pc = "done"
    /\ ld_result.kind = "FatalError"
    /\ ld_written = <<>>
    /\ ld_self = ld_before

\* C25: on a stub loader mem_begin(size, blocks, blocksize, load_addr)
\* raises FatalError without writing MEM_BEGIN exactly when
\* [load_addr, load_addr + size) intersects the text or the data of the
\* resident stub, or size is 0 and load_addr lies strictly inside one of
\* them; otherwise, and always on a ROM loader, MEM_BEGIN is written.
C25_MemBeginOverlap ==
    (ld_pc \notin {"idle", "ready"} /\ ld_call.name = "mem_begin") =>
        LET cls == ld_self.cls
            size == ld_call.x
            load_addr == ld_call.y
        IN IF IS_STUB(cls) /\ (IntersectsStub(cls, size, load_addr)
                                \/ EmptyInsideStub(cls, size, load_addr))
             THEN OverlapRefused
             ELSE ld_written = <<"MEM_BEGIN">>

C25_Witness ==
    /\ ld_call = Gated("mem_begin", 1, 1074523475)
    /\ ld_self.cls = "ESP32StubLoader"
    /\ OverlapRefused

\* the statement with the intersection of the ranges alone
C25_RefusedIffRangesIntersect ==
    (ld_pc \notin {"idle", "ready"} /\ ld_call.name = "mem_begin") =>
        IF IS_STUB(ld_self.cls) /\ IntersectsStub(ld_self.cls, ld_call.x, ld_call.y)
          THEN OverlapRefused
          ELSE ld_written = <<"MEM_BEGIN">>
(***************************************************************************)
(* The order of a stub upload                                              *)
(***************************************************************************)
\* the data of a sequence of requests, joined
RECURSIVE Joined(_)
Joined(reqs) ==
    IF reqs = <<>> THEN <<>> ELSE RCat(Head(reqs).data, Joined(Tail(reqs)))

\* requests i..j of what run_stub has written are the upload of `field` in
\* blocks of `block` bytes, as far as it has got: a MEM_BEGIN with the
\* length, the number of blocks, the block size and the load address, then
\* MEM_DATA requests numbered from 0 whose data joins to the front of the
\* field, every one of them a full block but the last of the field
FieldUpload(field, block, i, j) ==
    LET cls == up_self.cls
        payload == StubField(cls, field)
        blocks == CeilDiv(RLen(payload), block)
    IN /\ j - i <= blocks
       /\ up_sent[i].op = "MEM_BEGIN"
       /\ up_sent[i].words = <<RLen(payload), blocks, block,
                               StubFieldStart(cls, field)>>
       /\ \A k \in (i + 1)..j :
             /\ up_sent[k].op = "MEM_DATA"
             /\ up_sent[k].words = <<RLen(up_sent[k].data), k - i - 1, 0, 0>>
             /\ Joined(SubSeq(up_sent, i + 1, k))
                   = RTake(payload, Min((k - i) * block, RLen(payload)))

\* what run_stub has written is the front of: the upload of the text, the
\* upload of the data, one MEM_END with the entry point; it is all of it
\* once the greeting is awaited or was read, and only then
StubUploadOrder(block) ==
    LET cls == up_self.cls
        n == Len(up_sent)
        nt == 1 + CeilDiv(STUB_CODE(cls).text_len, block)
        nd == 1 + CeilDiv(STUB_CODE(cls).data_len, block)
    IN /\ n <= nt + nd + 1
       /\ n >= 1 => FieldUpload("text", block, 1, Min(n, nt))
       /\ n > nt => FieldUpload("data", block, nt + 1, Min(n, nt + nd))
       /\ n > nt + nd =>
             /\ up_sent[n].op = "MEM_END"
             /\ up_sent[n].words = <<0, STUB_CODE(cls).entry>>
       /\ (up_pc = "hello" \/ up_packet # "none") => n = nt + nd + 1
       /\ up_pc \in {"mem_begin", "mem_block", "mem_end"} => n >= 1
       /\ up_pc = "mem_end" => n = nt + nd + 1

\* run_stub returns the stub loader only after it read b'OHAI'; another
\* packet read makes it raise "Failed to start stub"
StubGreeting ==
    /\ up_result.kind = "return" => up_packet = "OHAI"
    /\ (up_packet = "OHNO" /\ up_ignored \notin {"timeout", "framing"}) =>
          up_result = UpOut("FatalError", "Failed to start stub")
    /\ (up_packet = "OHAI" /\ up_ignored \notin {"timeout", "framing"}) =>
          up_result = UpOut("return", STUB_CLASS(up_self.cls))

\* run_stub of a loader whose sync saw a stub: nothing written, nothing read
NoUpload ==
    /\ up_pc = "done"
    /\ up_sent = <<>>
    /\ up_packet = "none"
    /\ up_result = UpOut("return", STUB_CLASS(up_self.cls))

\* C26: when sync_stub_detected is clear, run_stub writes, for the text and
\* then the data of the stub, one MEM_BEGIN(length, ceil(length / block),
\* block, load address) with block = self.ESP_RAM_BLOCK (0x1800, or 0x800 on
\* an ESP32-S2 connected through its USB) followed by the MEM_DATA requests
\* 0, 1, ..., blocks - 1 whose data joins to the field, then one MEM_END with
\* the entry point, each request after the response to the one before was
\* accepted; it then reads one packet, returns the stub loader only if that is
\* b'OHAI' and raises "Failed to start stub" when it is another packet.  When
\* sync_stub_detected is set nothing is written and nothing is read.
C26_StubUploadOrder ==
    (up_pc \notin {"idle", "ready"} /\ up_call.name = "run_stub") =>
        IF up_self.sync_stub_detected THEN NoUpload
        ELSE StubUploadOrder(up_self.ESP_RAM_BLOCK) /\ StubGreeting

C26_Witness ==
    /\ up_call.name = "run_stub"
    /\ up_self = Uploader("ESP32S2ROM", FALSE, USB_RAM_BLOCK)
    /\ Len(up_sent) = 6
    /\ up_sent[3].words = <<2020, 1, 0, 0>>
    /\ up_packet = "OHAI"
    /\ up_result = UpOut("return", "ESP32S2StubLoader")

\* the statement with blocks of 0x1800 bytes on every connection
C26_BlocksOf0x1800 ==
    (up_pc \notin {"idle", "ready"} /\ up_call.name = "run_stub") =>
        IF up_self.sync_stub_detected THEN NoUpload
        ELSE StubUploadOrder(6144) /\ StubGreeting
(***************************************************************************)
(* mem_finish and the failures of its exchange                             *)
(***************************************************************************)
\* the status bytes of a response body are missing or start with a nonzero
\* byte
StatusFails(cls, data) ==
    \/ Len(data) < STATUS_BYTES_LENGTH(cls)
    \/ data[Len(data) - STATUS_BYTES_LENGTH(cls) + 1] # 0

\* the MEM_END exchange failed: no reply before the timeout, a framing
\* error, a short status or a nonzero status
MemEndFailed ==
    \/ up_reply.kind \in {"timeout", "framing"}
    \/ up_reply.kind = "response" /\ StatusFails(up_self.cls, up_reply.data)

\* C28: mem_finish on a ROM loader writes MEM_END and reads the response
\* with a port timeout of 50 ms, and returns None when the exchange fails
\* (no reply, framing error, short status, nonzero status); on a stub loader
\* it reads with the default timeout of 3 s and raises the FatalError of the
\* failure.
C28_MemFinishPolicy ==
    (up_call.name = "mem_finish" /\ up_pc \in {"mem_end", "done"}) =>
        /\ Len(up_sent) = 1
        /\ up_sent[1].op = "MEM_END"
        /\ up_sent[1].timeout = IF IS_STUB(up_self.cls) THEN 3000 ELSE 50
        /\ (up_pc = "done" /\ MemEndFailed) =>
              IF IS_STUB(up_self.cls)
                THEN up_result.kind = "FatalError" /\ up_ignored = "none"
                ELSE up_result = UpOut("return", "None") /\ up_ignored # "none"
        /\ (up_pc = "done" /\ up_reply.kind = "response" /\ ~MemEndFailed) =>
              up_result = UpOut("return", "None") /\ up_ignored = "none"

C28_Witness ==
    /\ up_call.name = "mem_finish"
    /\ up_self.cls = "ESP32ROM"
    /\ up_pc = "done"
    /\ up_reply = [kind |-> "response", data |-> <<1, 6, 0, 0>>]
    /\ up_ignored = "bad status"
    /\ up_result = UpOut("return", "None")
(***************************************************************************)
(* The frame reader after mem_finish                                       *)
(***************************************************************************)
\* C29: when mem_finish on a ROM loader has let a failed MEM_END exchange
\* pass and the target then sends b'OHAI', the read of run_stub returns that
\* packet and run_stub returns the stub loader.
C29_ReaderUsableAfterIgnoredError ==
    (up_call.name = "run_stub" /\ up_pc = "done" /\ up_ignored # "none"
        /\ up_packet = "OHAI") =>
        up_result = UpOut("return", STUB_CLASS(up_self.cls))
(***************************************************************************)
(* The frame reader on arbitrary bytes                                     *)
(***************************************************************************)
\* the frames of a sequence of packets, one after the other
RECURSIVE EncodedAll(_)
EncodedAll(ps) ==
    IF ps = <<>> THEN <<>> ELSE SlipEncode(Head(ps)) \o EncodedAll(Tail(ps))

IsPrefix(a, b) == Len(a) <= Len(b) /\ SubSeq(b, 1, Len(a)) = a

\* what the line carried after the frames of the packets yielded
UnreadRest == SubSeq(packet, Len(EncodedAll(packets)) + 1, Len(packet))

\* the places of `rest` where 0xDB is followed by neither 0xDC nor 0xDD
BadEscapes(rest) ==
    {i \in 2..(Len(rest) - 1) :
        rest[i] = SLIP_ESC /\ rest[i + 1] \notin {SLIP_ESC_END, SLIP_ESC_ESC}}

\* the error that bytes holding no complete frame end in: nothing at all,
\* a first byte other than 0xC0, a bad escape inside the frame begun, or a
\* frame begun and never closed
FramingOutcome(rest) ==
    IF rest = <<>> THEN "timeout_header"
    ELSE IF rest[1] # SLIP_END THEN "invalid_head"
    ELSE IF BadEscapes(rest) # {} THEN "invalid_escape"
    ELSE "timeout_content"

\* no frame of `rest` is closed before the error
NoFrameIn(rest) ==
    FramingOutcome(rest) \in {"invalid_escape", "timeout_content"} =>
        \A i \in 2..Len(rest) :
            rest[i] = SLIP_END => \E j \in BadEscapes(rest) : j < i

\* C27: the packets the frame reader yields are the bodies of the complete
\* frames at the front of what the line carries, one per closing 0xC0, each
\* decoded (its frame is the encoding of the body); the reader then raises
\* on what follows them: "Invalid head of packet" on a first byte other than
\* 0xC0, "Invalid SLIP escape" on 0xDB followed by neither 0xDC nor 0xDD
\* inside a frame, "Timed out waiting for packet header" when nothing
\* follows and "... content" when a frame was begun and not closed; the
\* failing frame yields no packet.
C27_ReaderErrors ==
    /\ IsPrefix(EncodedAll(packets), packet)
    /\ (slip_pc = "done") = (reader_error # "none")
    /\ slip_pc = "done" =>
          /\ reader_error = FramingOutcome(UnreadRest)
          /\ NoFrameIn(UnreadRest)

C27_Witness ==
    /\ slip_pc = "done"
    /\ packet = <<SLIP_END, SLIP_END, SLIP_END, SLIP_ESC>>
    /\ packets = <<<<>>>>
    /\ reader_error = "timeout_content"
(***************************************************************************)
(* The requests of a file written uncompressed                             *)
(***************************************************************************)
\* the number of blocks of write_size bytes that hold size bytes
BlocksFor(size, write_size) ==
    CHOOSE k \in 0..(MaxFileBlocks + 1) : k * write_size >= size /\ (k - 1) * write_size < size

\* the file as write_flash pads it before it is cut into blocks
PaddedFile ==
    pad_to(FileBytes(up_call.size),
           IF up_call.encrypted THEN FLASH_ENCRYPTED_WRITE_ALIGN(up_self.cls) ELSE 4, 255)

\* the bytes of the padded file from i * write_size on, write_size of them,
\* with 0xFF where the file has ended
BlockOfFile(i, write_size) ==
    LET part == RSlice(PaddedFile, i * write_size, write_size)
    IN RCat(part, Run(255, write_size - RLen(part)))

\* how many bytes of data equal v
RECURSIVE CountIn(_, _, _)
CountIn(data, v, k) ==
    IF k = 0 THEN 0
    ELSE CountIn(data, v, k - 1)
         + (IF data[k].b = v THEN data[k].e - RStart(data, k) ELSE 0)

RECURSIVE XorAll(_)
XorAll(S) == IF S = {} THEN 0 ELSE LET v == CHOOSE x \in S : TRUE IN Xor(v, XorAll(S \ {v}))

\* the XOR of 0xEF and every byte of data: the values that occur an odd
\* number of times
XorChecksum(data) ==
    Xor(ESP_CHECKSUM_MAGIC,
        XorAll({v \in {data[k].b : k \in 1..Len(data)} : CountIn(data, v, Len(data)) % 2 = 1}))

\* the response to a request was accepted: it came, with its status bytes,
\* the first of them zero
Accepted(cls, r) ==
    /\ r.kind = "response"
    /\ Len(r.data) >= STATUS_BYTES_LENGTH(cls)
    /\ r.data[Len(r.data) - STATUS_BYTES_LENGTH(cls) + 1] = 0

DataRequests == {i \in 1..Len(up_sent) : up_sent[i].op \in {"FLASH_DATA", "FLASH_ENCRYPT_DATA"}}

BlocksAllSent == up_pc \in {"flush", "md5"} \/ (up_pc = "done" /\ up_result.kind = "return")

\* C30: for a non-empty file written uncompressed, the first request is
\* FLASH_BEGIN announcing ceil(size / FLASH_WRITE_SIZE) blocks of
\* FLASH_WRITE_SIZE bytes; the requests after it carry the blocks, FLASH_DATA
\* or FLASH_ENCRYPT_DATA, numbered 0, 1, ... in order, each with exactly
\* FLASH_WRITE_SIZE bytes of the file (0xFF after its end) and the XOR
\* checksum of those bytes, each sent only when the response to the request
\* before it was accepted; when the loop is over, exactly the announced number
\* of blocks was sent.
C30_RawWriteBlocks ==
    LET ws == up_self.FLASH_WRITE_SIZE
        n == BlocksFor(up_call.size, ws)
    IN (up_call.name = "write_flash" /\ up_sent # <<>>) =>
          /\ up_call.size > 0
          /\ up_sent[1].op = "FLASH_BEGIN"
          /\ up_sent[1].words[2] = n
          /\ up_sent[1].words[3] = ws
          /\ DataRequests = {i \in 2..Len(up_sent) : i <= n + 1}
          /\ \A i \in DataRequests :
                /\ up_sent[i].words = <<ws, i - 2, 0, 0>>
                /\ RLen(up_sent[i].data) = ws
                /\ up_sent[i].data = BlockOfFile(i - 2, ws)
                /\ up_sent[i].chk = XorChecksum(up_sent[i].data)
          /\ up_pc = "flash_block" => Accepted(up_self.cls, up_reply)
          /\ BlocksAllSent => Cardinality(DataRequests) = n

C30_Witness ==
    /\ up_call.name = "write_flash"
    /\ up_pc = "done"
    /\ up_result = UpOut("return", "verified")
    /\ up_self.cls = "ESP32ROM"
    /\ up_call.size = up_self.FLASH_WRITE_SIZE + 1
    /\ Cardinality(DataRequests) = 2
    /\ up_sent[3].data = RCat(Run(3, 1), Run(255, 1023))
(***************************************************************************)
(* flash_defl_finish                                                       *)
(***************************************************************************)
DeflFinishCalled == ld_pc # "idle" /\ ld_call.name = "flash_defl_finish"

\* C31: flash_defl_finish with reboot=False on a ROM loader writes nothing: it
\* returns None, except on the ESP8266 ROM loader, where it fails with
\* NotImplementedInROMError whatever reboot is and writes nothing either.  On
\* a stub loader, and on any other ROM loader with reboot=True, exactly one
\* FLASH_DEFL_END is written.
C31_DeflFinish ==
    DeflFinishCalled =>
        IF ld_self.cls = "ESP8266ROM"
          THEN /\ ld_written = <<>>
               /\ ld_pc = "done" => ld_result.kind = "NotImplementedInROMError"
        ELSE IF ~IS_STUB(ld_self.cls) /\ ld_call.x = 0
          THEN /\ ld_written = <<>>
               /\ ld_pc = "done" => ld_result = ReturnNone
        ELSE ld_pc # "ready" => ld_written = <<"FLASH_DEFL_END">>

C31_Witness ==
    /\ DeflFinishCalled
    /\ ld_pc = "done"
    /\ ld_self.cls = "ESP32ROM"
    /\ ld_call.x = 0
    /\ ld_result = ReturnNone
    /\ ld_written = <<>>

\* C31 as stated: on every ROM loader reboot=False returns with nothing
\* written and reboot=True writes one FLASH_DEFL_END.
C31_EveryRomLoader ==
    (DeflFinishCalled /\ ~IS_STUB(ld_self.cls) /\ ld_pc = "done") =>
        IF ld_call.x = 0
          THEN ld_written = <<>> /\ ld_result.kind = "return"
          ELSE ld_written = <<"FLASH_DEFL_END">>
(***************************************************************************)
(* The end of write_flash                                                  *)
(***************************************************************************)
FinishOps == {"FLASH_END", "FLASH_DEFL_END"}

FinishRequests == {k \in 1..Len(sent) : sent[k].op \in FinishOps}

\* write_flash is running, from its first line to its return
InWriteFlash ==
    pc \in {"operation", "efuse", "file", "begin", "block", "flush", "md5", "leaving",
            "leave_begin", "leave_end", "after"}

\* C32: on a stub loader write_flash ends, after its last file, with
\* FLASH_BEGIN(0, 0) and then one finish request that tells the stub to stay
\* (reboot=False): FLASH_DEFL_END when args.compress is set and the last file
\* was not encrypted, FLASH_END otherwise; it sends no other finish request.
\* On a ROM loader write_flash sends no FLASH_END and no FLASH_DEFL_END.
C32_EndOfWriteFlash ==
    /\ (InWriteFlash /\ pc \notin {"leave_end", "after"}) => FinishRequests = {}
    /\ (InWriteFlash /\ esp \in RomClasses) => FinishRequests = {}
    /\ (pc = "leave_begin" \/ pc = "leave_end") =>
          /\ IS_STUB(esp)
          /\ loop.file > Len(files)
    /\ (pc = "after" /\ IS_STUB(esp)) =>
          /\ Len(sent) >= 2
          /\ FinishRequests = {Len(sent)}
          /\ sent[Len(sent) - 1] = [op |-> "FLASH_BEGIN", wait |-> TRUE, arg |-> "0, 0"]
          /\ sent[Len(sent)] =
                [op |-> IF Compress /\ ~files[Len(files)].encrypted
                          THEN "FLASH_DEFL_END" ELSE "FLASH_END",
                 wait |-> TRUE, arg |-> "stay"]

C32_Witness ==
    /\ pc = "after"
    /\ IS_STUB(esp)
    /\ Len(files) = 2
    /\ sent[Len(sent)].op = "FLASH_DEFL_END"
(***************************************************************************)
(* Alignment of encrypted writes                                           *)
(***************************************************************************)
\* the boundary of the variant: 16 bytes on ESP32-S2 and ESP32-C3, else 32
EncryptBoundary(cls) ==
    IF IsInstance(cls, "ESP32S2ROM") \/ IsInstance(cls, "ESP32C3ROM") THEN 16 ELSE 32

Misaligned ==
    /\ up_call.name = "write_flash"
    /\ up_call.encrypted
    /\ IsInstance(up_self.cls, "ESP32ROM")
    /\ up_call.address % EncryptBoundary(up_self.cls) # 0

\* C33: when a file to be written encrypted has an address that is not a
\* multiple of the variant's boundary, write_flash fails, and no request but
\* the register reads of the efuse checks is sent.
C33_MisalignedNeverWritten ==
    Misaligned =>
        /\ \A i \in 1..Len(up_sent) : up_sent[i].op = "READ_REG"
        /\ up_pc = "done" => up_result.kind = "FatalError"
(***************************************************************************)
(* read_flash: acknowledgements and digest                                 *)
(***************************************************************************)
ReadCalled == up_call.name = "read_flash"

\* the frames read_flash has read, and the acknowledgements it has written
\* after the request
FramesRead == up_loop.reads

Acks == SubSeq(up_sent, 2, Len(up_sent))

\* the number four bytes stand for, least significant byte first
LittleEndian(x) ==
    RByte(x, 0) + 256 * (RByte(x, 1) + 256 * (RByte(x, 2) + 256 * RByte(x, 3)))

RECURSIVE BytesUpTo(_)
BytesUpTo(k) == IF k = 0 THEN 0 ELSE BytesUpTo(k - 1) + FramesRead[k].len

\* C34: once READ_FLASH is accepted, every frame is read when exactly one
\* acknowledgement has been written for each data frame read before it, the
\* digest frame included; each acknowledgement is a packet of 4 bytes that
\* holds, least significant byte first, the number of bytes received so far;
\* the values increase strictly, and when read_flash returns the last one is
\* the length asked for.
C34_ReadFlowControl ==
    (ReadCalled /\ up_sent # <<>>) =>
        /\ up_sent[1].op = "READ_FLASH"
        /\ \A k \in 1..Len(FramesRead) : FramesRead[k].written = k
        /\ Len(Acks) \in {Len(FramesRead) - 1, Len(FramesRead)}
        /\ \A k \in 1..Len(Acks) :
              /\ Acks[k].op = "write"
              /\ RLen(Acks[k].data) = 4
              /\ LittleEndian(Acks[k].data) = BytesUpTo(k)
              /\ k > 1 => LittleEndian(Acks[k].data) > LittleEndian(Acks[k - 1].data)
        /\ \A k \in 1..Len(FramesRead) :
              FramesRead[k].kind = "digest" =>
                 /\ k = Len(FramesRead)
                 /\ Len(Acks) = k - 1
                 /\ k > 1 => LittleEndian(Acks[k - 1].data) = up_call.length
        /\ up_result.kind = "return" =>
              /\ FramesRead # <<>>
              /\ FramesRead[Len(FramesRead)].kind = "digest"
              /\ up_call.length > 0 =>
                    LittleEndian(Acks[Len(Acks)].data) = up_call.length

C34_Witness ==
    /\ ReadCalled
    /\ up_result.kind = "return"
    /\ up_call.length = 2 * FLASH_SECTOR_SIZE + 1
    /\ Len(Acks) = 3
    /\ Acks[3].data = Bytes(<<1, 32, 0, 0>>)

DataFramesRead == {k \in 1..Len(FramesRead) : FramesRead[k].kind = "data"}

ShortIntermediateFrame ==
    \E k \in DataFramesRead :
        FramesRead[k].len < FLASH_SECTOR_SIZE /\ BytesUpTo(k) < up_call.length

DigestFrameRead ==
    FramesRead # <<>> /\ FramesRead[Len(FramesRead)].kind = "digest"

TheDigestFrame == FramesRead[Len(FramesRead)].body

ReadFailed == up_pc = "done" /\ up_result.kind = "FatalError"

\* C35: read_flash of a stub loader returns the data only when exactly the
\* length asked for was received and the digest frame is 16 bytes equal to
\* the MD5 of the bytes received; after a short intermediate frame, more
\* bytes than asked for, a digest frame that is not 16 bytes long or a digest
\* that differs, it has failed with FatalError.
C35_ReadFlashVerified ==
    ReadCalled =>
        /\ up_result.kind = "return" =>
              /\ up_loop.data = up_call.length
              /\ DigestFrameRead
              /\ Len(TheDigestFrame) = 16
              /\ TheDigestFrame = Md5Digest(up_loop.content)
        /\ ShortIntermediateFrame => ReadFailed
        /\ up_loop.data > up_call.length => ReadFailed
        /\ (DigestFrameRead /\ Len(TheDigestFrame) # 16) => ReadFailed
        /\ (DigestFrameRead /\ TheDigestFrame # Md5Digest(up_loop.content)) => ReadFailed

C35_Witness ==
    /\ ReadCalled
    /\ up_pc = "done"
    /\ up_result = UpOut("FatalError", "Digest mismatch")
    /\ up_loop.data = up_call.length
    /\ up_loop.content = 2
    /\ TheDigestFrame = Md5Digest(1)

BaudCalled == up_call.name = "change_baud"

\* command() raised: no response to the request was returned to change_baud
BaudExchangeFailed ==
    /\ up_pc = "done"
    /\ up_sent # <<>>
    /\ up_reply.kind # "response"

\* C36: change_baud writes at most one request, CHANGE_BAUDRATE with the new
\* baud rate and, as second word, the port's baud rate on a stub loader and 0
\* on a ROM loader; the port's baud rate differs from the one before the call
\* only when the response to that request was read, and then it is the new
\* one; when command() raised it is the one before the call; when
\* change_baud returns, the input was flushed once and one new frame reader
\* made, with the new baud rate set.
C36_ChangeBaud ==
    BaudCalled =>
        /\ Len(up_sent) <= 1
        /\ up_sent # <<>> =>
              /\ up_sent[1].op = "CHANGE_BAUDRATE"
              /\ up_sent[1].words =
                    <<up_call.baud, IF IS_STUB(up_self.cls) THEN up_loop.previous ELSE 0>>
              /\ up_sent[1].data = <<>>
        /\ up_loop.baudrate # up_loop.previous =>
              /\ up_sent # <<>>
              /\ up_reply.kind = "response"
              /\ up_loop.baudrate = up_call.baud
        /\ BaudExchangeFailed =>
              /\ up_result.kind \notin {"return", "running"}
              /\ up_loop.baudrate = up_loop.previous
        /\ up_result.kind = "return" =>
              /\ up_reply.kind = "response"
              /\ up_loop.baudrate = up_call.baud
              /\ up_loop.flushed = 1
              /\ up_loop.readers = 2
              /\ up_reader = "running"

C36_Witness ==
    /\ BaudCalled
    /\ up_self.cls = "ESP32S2StubLoader"
    /\ up_loop.previous = ESP_ROM_BAUD
    /\ up_sent = <<ChangeBaudRequest("ESP32S2StubLoader", 8 * ESP_ROM_BAUD, ESP_ROM_BAUD)>>
    /\ up_sent[1].words = <<921600, 115200>>
    /\ up_result.kind = "return"
    /\ up_loop.baudrate = 921600

SpiCalled == up_call.name = "run_spiflash_command"

SpiOverflow == up_call.read_bits > 32 \/ RLen(up_call.data) > 64

\* C37: when run_spiflash_command returns, its first two requests read
\* SPI_USR and SPI_USR2, and the target's two registers hold the values
\* those reads returned; a call with more than 64 bytes of data or more than
\* 32 bits to read fails with FatalError before any request is written, the
\* target's registers untouched.
C37_SpiFrame ==
    SpiCalled =>
        /\ up_result.kind = "return" =>
              /\ Len(up_sent) >= 2
              /\ up_sent[1] = SpiRequest(SpiRead(SpiRegisters(up_self.cls).USR, ""))
              /\ up_sent[2] = SpiRequest(SpiRead(SpiRegisters(up_self.cls).USR2, ""))
              /\ up_loop.old_spi_usr = up_loop.before[SpiRegisters(up_self.cls).USR]
              /\ up_loop.old_spi_usr2 = up_loop.before[SpiRegisters(up_self.cls).USR2]
              /\ up_loop.target[SpiRegisters(up_self.cls).USR] = up_loop.old_spi_usr
              /\ up_loop.target[SpiRegisters(up_self.cls).USR2] = up_loop.old_spi_usr2
        /\ (SpiOverflow /\ up_pc # "ready") =>
              /\ up_pc = "done"
              /\ up_result.kind = "FatalError"
              /\ up_sent = <<>>
              /\ up_loop.target = up_loop.before

C37_Witness ==
    /\ SpiCalled
    /\ up_result.kind = "return"
    /\ up_self.cls = "ESP32S2StubLoader"
    /\ RLen(up_call.data) = 5
    /\ up_call.read_bits = 8
    /\ up_loop.old_spi_usr = <<32768, 64>>
    /\ up_loop.old_spi_usr2 = Zero
    /\ \E k \in 1..Len(up_sent) :
          up_sent[k] = SpiRequest(SpiWrite(SpiRegisters(up_self.cls).USR2, <<28672, 159>>))
    /\ up_loop.target[SpiRegisters(up_self.cls).USR2] = Zero

ShaConfigured == img_pc # "idle" /\ image.elf_sha256_offset # 0

\* where the data of the k-th segment written starts in the file
RECURSIVE DataStart(_)
DataStart(k) ==
    IF k = 1 THEN 2 * SEG_HEADER_LEN
    ELSE DataStart(k - 1) + RLen(image.segments[k - 1].data) + SEG_HEADER_LEN

\* the 32 bytes at elf_sha256_offset lie in the data of the k-th segment,
\* were zero there and hold the digest in the file
PatchedIn(k) ==
    LET at == image.elf_sha256_offset - DataStart(k)
    IN /\ at >= 0
       /\ at + SHA256_DIGEST_LEN <= RLen(image.segments[k].data)
       /\ RSlice(image.segments[k].data, at, SHA256_DIGEST_LEN) = Run(0, SHA256_DIGEST_LEN)
       /\ RSlice(f.data, image.elf_sha256_offset, SHA256_DIGEST_LEN) = image.elf_sha256

ShaPatchError ==
    /\ img_pc = "raised"
    /\ sv.error \in {"Cannot place SHA256 digest on segment boundary",
                     "Contents of segment at SHA256 digest offset are not all zero"}

\* C38: with elf_sha256_offset set, save ends either with the 32 bytes at
\* that offset inside the data of one segment, zero in the source segment
\* and holding the ELF's SHA-256 in the file, or with the error of the
\* patch; it does not complete with the file unpatched.
C38_ShaPatchedOrError ==
    ShaConfigured =>
        /\ img_pc = "saved" => \E k \in 1..Len(image.segments) : PatchedIn(k)
        /\ img_pc = "raised" => ShaPatchError

\* what holds: a digest that is in the file is in place as described, and
\* the file is complete without it when the offset is not below the data
\* length counted from the start of any segment's header
C38_PatchedOnlyInPlace ==
    (ShaConfigured /\ img_pc \in {"segments", "saved"}) =>
        \A k \in 1..sv.written :
            LET file_pos == DataStart(k) - SEG_HEADER_LEN
                hit == image.elf_sha256_offset >= file_pos
                       /\ image.elf_sha256_offset < file_pos + RLen(image.segments[k].data)
            IN /\ hit => PatchedIn(k)
               /\ ~hit => RSlice(f.data, DataStart(k), RLen(image.segments[k].data))
                             = image.segments[k].data

C38_Witness ==
    /\ ShaConfigured
    /\ img_pc = "saved"
    /\ Len(image.segments) = 2
    /\ image.elf_sha256_offset = 88
    /\ RLen(image.segments[1].data) = 48
    /\ PatchedIn(2)

C38_Unpatched ==
    /\ ShaConfigured
    /\ img_pc = "saved"
    /\ image.elf_sha256_offset = 60
    /\ \A k \in 1..Len(image.segments) : ~PatchedIn(k)

Merged == img_pc = "merged"

RECURSIVE ConcatData(_)
ConcatData(segments) ==
    IF segments = <<>> THEN <<>>
    ELSE RCat(segments[1].data, ConcatData(Tail(segments)))

\* the second segment starts where the first ends, in the same memory types
\* and with the same include_in_checksum
Mergeable(first, second) ==
    /\ second.addr = first.addr + RLen(first.data)
    /\ get_memory_type(first, image.cls) = get_memory_type(second, image.cls)
    /\ first.include_in_checksum = second.include_in_checksum

\* the segments of the list before the merge that no pass merged into the
\* one before them
Heads ==
    {1} \cup {k \in 2..Len(sv.before) : ~Mergeable( sv.before[k - 1], sv.before[k])}

\* the k-th of them, counted from the front
RECURSIVE NthHead(_)
NthHead(k) ==
    IF k = 1 THEN 1
    ELSE CHOOSE h \in Heads : h > NthHead(k - 1)
                              /\ \A g \in Heads : g > NthHead(k - 1) => h <= g

GroupEnd(k) == IF k = Cardinality(Heads) THEN Len(sv.before) ELSE NthHead(k + 1) - 1

\* C39: after merge_adjacent_segments the list holds, in their order, the
\* segments that were not merged into the one before them, each with its
\* address and flag and with the data of the segments merged into it
\* appended in order; a segment was merged into the one before it when the
\* two had the same memory types and include_in_checksum and the second
\* started where the first ended; no two neighbours left meet all three;
\* the data of all segments in list order is as before.
C39_Merge ==
    (Merged /\ sv.before # <<>>) =>
        /\ Len(image.segments) = Cardinality(Heads)
        /\ \A k \in 1..Len(image.segments) :
              /\ image.segments[k].addr = sv.before[NthHead(k)].addr
              /\ image.segments[k].include_in_checksum
                    = sv.before[NthHead(k)].include_in_checksum
              /\ image.segments[k].data
                    = ConcatData(SubSeq(sv.before, NthHead(k), GroupEnd(k)))
        /\ \A k \in 1..(Len(image.segments) - 1) :
              ~Mergeable( image.segments[k], image.segments[k + 1])
        /\ ConcatData(image.segments) = ConcatData(sv.before)

C39_Witness ==
    /\ Merged
    /\ image.cls = "ESP32FirmwareImage"
    /\ Len(sv.before) = 3
    /\ sv.before[1].addr = 1073610720
    /\ sv.before[2].addr = 1073610736
    /\ sv.before[3].addr = 1073610784
    /\ Len(image.segments) = 2
    /\ image.segments[1].data = RCat(Run(161, 16), Run(162, 16))
    /\ image.segments[2] = sv.before[3]

\* C39 as stated: afterwards no two neighbours in the list have the same
\* memory types and the same include_in_checksum.
C39_NoNeighboursShareBoth ==
    Merged =>
        \A k \in 1..(Len(image.segments) - 1) :
            ~(/\ get_memory_type(image.segments[k], image.cls)
                    = get_memory_type(image.segments[k + 1], image.cls)
              /\ image.segments[k].include_in_checksum
                    = image.segments[k + 1].include_in_checksum)

\* ESP32FirmwareImage.save is in its while loop with a flash segment to
\* place, and get_alignment_data_needed returns 0 for it
PadLengthIsZero ==
    /\ img_pc = "segments"
    /\ image.cls \in Esp32Images
    /\ sv.flash_segments # <<>>
    /\ get_alignment_data_needed(RLen(f.data), Head(sv.flash_segments)) = 0

\* C40: in save of the newer variant, whenever the pad length computed for
\* the next flash segment is 0, the file position plus the 8-byte segment
\* header is congruent to the segment's load address modulo 0x10000, so the
\* assertion before the segment is written never fails.
C40_AlignedWhenPadIsZero ==
    /\ PadLengthIsZero =>
          (RLen(f.data) + SEG_HEADER_LEN) % IROM_ALIGN
              = Head(sv.flash_segments).addr % IROM_ALIGN
    /\ (img_pc = "raised" /\ image.cls \in Esp32Images) => sv.error # "AssertionError"

\* the assertion has failed: 8 bytes are missing, the header of a padding
\* segment without data
C40_AssertionFailed ==
    /\ img_pc = "raised"
    /\ sv.error = "AssertionError"
    /\ (RLen(f.data) + 2 * SEG_HEADER_LEN) % IROM_ALIGN
           = Head(sv.flash_segments).addr % IROM_ALIGN
====
